---- MODULE Spec2Model ----
(***************************************************************************)
(* A model of the WaveNumberOCR back end (ScreenTextRecognizer) and of the *)
(* ScreenRegionMarker geometry helper.                                     *)
(*                                                                         *)
(* A Python str is a sequence of glyph tokens.  The glyphs the code names  *)
(* are written with ASCII tokens:                                          *)
(*   "di" 第   "di2" 弟   "bo" 波   "po" 坡                                *)
(*   "ling" 零 "yi" 一 "er" 二 "san" 三 "si" 四 "wu" 五 "liu" 六 "qi" 七   *)
(*   "ba" 八 "jiu" 九 "shi" 十 "liang" 两                                  *)
(*   "0".."9" the ASCII digits, "sp" a space, "nl" a newline,              *)
(*   "I" "l" "bar" (|) "O" "o" "O0" (〇) the glyphs OCR confuses with 1, 0, *)
(*   "x" any other character.                                              *)
(* Optional[T] is a sequence: None is <<>>, a value v is <<v>>.            *)
(* The outcome of a call is a record: Return(v) or Raise(exception).       *)
(***************************************************************************)
EXTENDS Integers, Sequences, FiniteSets, TLC

VARIABLES
    op,       \* the operation that was called ("none" before the call)
    args,     \* the arguments of the call
    ret,      \* the outcome of the call (NotCalled before the call)
    monitor,  \* the rectangle handed to sct.grab by the call (NoGrab if none)
    calls,    \* the calls made by the latest operation, in order
    screen,   \* the colour of every pixel of the screen
    now,      \* int(time.time())
    dirExists,   \* whether save_dir exists
    files,       \* the images in save_dir, by timestamp name
    alpha_only,  \* whether Image.getbbox of the installed Pillow looks at
                 \* the alpha band only on an RGBA image
    wave_app,          \* WaveNumberApp: its fields and its worker threads
    exporters,         \* the save_region_color_mask calls that are under way
    input_controller,  \* InputController: its fields and its threads
    region_app,        \* ScreenRegionMarkerApp: store, file and selector
    input_gui          \* AutoInputGUI: current_hotkey, the cards, config.json

envVars == <<calls, screen, now, dirExists, files, alpha_only>>

appVars == <<wave_app, exporters, input_controller, region_app, input_gui>>

vars == <<op, args, ret, monitor, calls, screen, now, dirExists, files, alpha_only,
          wave_app, exporters, input_controller, region_app, input_gui>>

----------------------------------------------------------------------------
(* Outcomes and optional values *)

None == <<>>
Some(v) == <<v>>
NotCalled == [kind |-> "pending"]
Return(v) == [kind |-> "return", value |-> v]
Raise(e) == [kind |-> "raise", exc |-> e]
NoGrab == [grabbed |-> FALSE]

Min(a, b) == IF a <= b THEN a ELSE b
Max(a, b) == IF a >= b THEN a ELSE b
Abs(a) == IF a >= 0 THEN a ELSE -a

----------------------------------------------------------------------------
(* Bounds *)

\* screen coordinates are drawn from -MaxCoord..MaxCoord
MaxCoord == 2
Coord == (-MaxCoord)..MaxCoord

----------------------------------------------------------------------------
(* Geometry: normalize_box, create_region_from_points, capture_region *)

\* normalize_box with right taken from the second point as passed
normalize_box_unordered(x1, y1, x2, y2) ==
    <<Min(x1, x2), Min(y1, y2), x2, y2>>

\* (left, top, right, bottom)
normalize_box(x1, y1, x2, y2) ==
    LET left == Min(x1, x2)
        top == Min(y1, y2)
        right == Max(x1, x2)
        bottom == Max(y1, y2)
    IN  <<left, top, right, bottom>>

\* create_region_from_points with a signed width and height
create_region_signed(name, x1, y1, x2, y2) ==
    [name |-> name, left |-> Min(x1, x2), top |-> Min(y1, y2),
     width |-> x2 - x1, height |-> y2 - y1, deleted |-> FALSE]

\* Region(name, left, top, width, height), deleted defaulting to False
create_region_from_points(name, x1, y1, x2, y2) ==
    LET left == Min(x1, x2)
        top == Min(y1, y2)
        width == Abs(x2 - x1)
        height == Abs(y2 - y1)
    IN  [name |-> name, left |-> left, top |-> top,
         width |-> width, height |-> height, deleted |-> FALSE]

\* the geometry check of capture_region: TRUE iff ScreenCaptureError is raised
\* before the grab
capture_region_rejects(width, height) == width <= 0 \/ height <= 0

\* the outcomes of sct.grab(monitor): the frame, or a failure of the OS call
\* that capture_region wraps in ScreenCaptureError
GrabOutcomes(width, height) ==
    {Return([size |-> <<width, height>>]), Raise("ScreenCaptureError")}

\* the pixels of the screen, and the colours a pixel has
ScreenPoints == {<<0, 0>>, <<1, 0>>}
Yellow == <<255, 214, 36>>
Black == <<0, 0, 0>>
Colours == {Yellow, Black}
Screens == [ScreenPoints -> Colours]

NoFiles == [n \in {} |-> <<>>]

\* a recognizer that was constructed and has made no call
EnvIdle ==
    /\ calls = <<>>
    /\ screen = [p \in ScreenPoints |-> Black]
    /\ now = 0
    /\ dirExists = FALSE
    /\ files = NoFiles
    /\ alpha_only = TRUE

NoEntries == [n \in {} |-> <<>>]

\* WaveNumberApp.__init__: no recognition is under way
WaveNumberApp ==
    [recognizing |-> FALSE, thread |-> None, coords |-> None,
     workers |-> <<>>, posted |-> None, closed |-> FALSE]

\* InputController.__init__: both events are clear and there is no thread
InputController ==
    [running |-> FALSE, paused |-> FALSE, strings |-> <<>>,
     char_interval_ms |-> 1, thread |-> None, threads |-> <<>>,
     joining |-> FALSE]

\* ScreenRegionMarkerApp before regions.json exists
ScreenRegionMarkerApp ==
    [regions |-> NoEntries,
     file |-> [exists |-> FALSE, intact |-> TRUE, data |-> NoEntries],
     values |-> {}, selected |-> <<>>, current_region |-> None,
     ever_saved |-> {}]

\* AutoInputGUI before config.json exists
AutoInputGUI ==
    [current_hotkey |-> "f1", cards |-> <<>>, char_interval_entry |-> Some(100),
     file |-> None, listening |-> TRUE]

\* the applications as they are constructed, nothing started
AppIdle ==
    /\ wave_app = WaveNumberApp
    /\ exporters = <<>>
    /\ input_controller = InputController
    /\ region_app = ScreenRegionMarkerApp
    /\ input_gui = AutoInputGUI

Call_normalize_box ==
    /\ op = "none"
    /\ Len(args) = 4
    /\ op' = "normalize_box"
    /\ ret' = Return(normalize_box(args[1], args[2], args[3], args[4]))
    /\ UNCHANGED <<args, monitor>>
    /\ UNCHANGED envVars
    /\ UNCHANGED appVars

Call_create_region_from_points ==
    /\ op = "none"
    /\ Len(args) = 4
    /\ op' = "create_region_from_points"
    /\ ret' = Return(create_region_from_points("r", args[1], args[2], args[3], args[4]))
    /\ UNCHANGED <<args, monitor>>
    /\ UNCHANGED envVars
    /\ UNCHANGED appVars

\* capture_region with the geometry check left out
Call_capture_region_unchecked ==
    /\ op = "none"
    /\ Len(args) = 4
    /\ op' = "capture_region"
    /\ LET box == normalize_box(args[1], args[2], args[3], args[4])
           width == box[3] - box[1]
           height == box[4] - box[2]
       IN  /\ monitor' = [grabbed |-> TRUE, left |-> box[1], top |-> box[2],
                          width |-> width, height |-> height]
           /\ ret' \in GrabOutcomes(width, height)
    /\ UNCHANGED args
    /\ UNCHANGED envVars
    /\ UNCHANGED appVars

Call_capture_region ==
    /\ op = "none"
    /\ Len(args) = 4
    /\ op' = "capture_region"
    /\ LET box == normalize_box(args[1], args[2], args[3], args[4])
           width == box[3] - box[1]
           height == box[4] - box[2]
       IN  IF capture_region_rejects(width, height)
           THEN /\ ret' = Raise("ScreenCaptureError")
                /\ UNCHANGED monitor
           ELSE /\ monitor' = [grabbed |-> TRUE, left |-> box[1], top |-> box[2],
                               width |-> width, height |-> height]
                /\ ret' \in GrabOutcomes(width, height)
    /\ UNCHANGED args
    /\ UNCHANGED envVars
    /\ UNCHANGED appVars

InitGeom ==
    /\ op = "none"
    /\ args \in Coord \X Coord \X Coord \X Coord
    /\ ret = NotCalled
    /\ monitor = NoGrab
    /\ EnvIdle
    /\ AppIdle

NextGeom ==
    \/ Call_normalize_box
    \/ Call_create_region_from_points
    \/ Call_capture_region

SpecGeom == InitGeom /\ [][NextGeom]_vars

----------------------------------------------------------------------------
(* Strings *)

Whitespace == {"sp", "nl"}
AsciiDigits == {"0", "1", "2", "3", "4", "5", "6", "7", "8", "9"}
DigitChars == <<"0", "1", "2", "3", "4", "5", "6", "7", "8", "9">>

\* the marker class without the variant 弟
MarkerStrict == {"di"}

\* the glyph classes of the two patterns of parse_wave_number
Marker == {"di", "di2"}
Unit == {"bo", "po"}
CnNumerals == {"ling", "yi", "er", "san", "si", "wu", "liu", "qi", "ba", "jiu",
               "shi", "liang"}

\* the dict `digits` of _chinese_numeral_to_int
digits ==
    [g \in {"ling", "yi", "er", "san", "si", "wu", "liu", "qi", "ba", "jiu"} |->
        CASE g = "ling" -> 0 [] g = "yi" -> 1 [] g = "er" -> 2 [] g = "san" -> 3
          [] g = "si" -> 4 [] g = "wu" -> 5 [] g = "liu" -> 6 [] g = "qi" -> 7
          [] g = "ba" -> 8 [] g = "jiu" -> 9]

\* the dict `replacements` of _normalize_common_misread
replacements ==
    [g \in {"I", "l", "bar", "O", "o", "O0"} |->
        IF g \in {"I", "l", "bar"} THEN "1" ELSE "0"]

\* ch in s
Contains(s, ch) == \E i \in 1..Len(s) : s[i] = ch

\* s.replace(old, new) for one-character old and new
Replace(s, old, new) == [i \in 1..Len(s) |-> IF s[i] = old THEN new ELSE s[i]]

\* s.split(sep) for a one-character sep
RECURSIVE Split(_, _)
Split(s, sep) ==
    IF ~Contains(s, sep)
    THEN <<s>>
    ELSE LET i == CHOOSE k \in 1..Len(s) :
                      s[k] = sep /\ \A j \in 1..(k - 1) : s[j] # sep
         IN  <<SubSeq(s, 1, i - 1)>> \o Split(SubSeq(s, i + 1, Len(s)), sep)

\* str(n) for an int n >= 0
RECURSIVE py_str(_)
py_str(n) ==
    IF n < 10 THEN <<DigitChars[n + 1]>>
    ELSE py_str(n \div 10) \o <<DigitChars[(n % 10) + 1]>>

DigitValue(c) == CHOOSE d \in 0..9 : DigitChars[d + 1] = c

RECURSIVE DecimalValue(_)
DecimalValue(s) ==
    IF s = <<>> THEN 0
    ELSE 10 * DecimalValue(SubSeq(s, 1, Len(s) - 1)) + DigitValue(s[Len(s)])

\* int(s): ValueError on the empty string and on a non-digit
py_int(s) ==
    IF s = <<>> \/ \E i \in 1..Len(s) : s[i] \notin AsciiDigits
    THEN Raise("ValueError")
    ELSE Return(DecimalValue(s))

\* key in d, for a str key and a dict d whose keys are single characters
KeyIn(key, d) == Len(key) = 1 /\ key[1] \in DOMAIN d

\* d[key]: KeyError when the key is missing
GetItem(d, key) == IF KeyIn(key, d) THEN Return(d[key[1]]) ELSE Raise("KeyError")

----------------------------------------------------------------------------
(* _normalize_common_misread and _chinese_numeral_to_int *)

\* the normalization that rewrites I, l and | only
_normalize_ones_only(text) ==
    [i \in 1..Len(text) |-> IF text[i] \in {"I", "l", "bar"} THEN "1" ELSE text[i]]

_normalize_common_misread(text) ==
    [i \in 1..Len(text) |->
        IF text[i] \in DOMAIN replacements THEN replacements[text[i]] ELSE text[i]]

\* a step of a function body: it goes on with a value, or the function ends
Continue(v) == [kind |-> "next", value |-> v]

\* the tens of "X 十 ..." looked up without the membership test
numeral_tens_unguarded(parts) ==
    IF parts[1] = <<>> THEN Continue(1)
    ELSE LET g == GetItem(digits, parts[1])
         IN  IF g.kind = "raise" THEN g ELSE Continue(g.value)

\* tens: 1 for an empty parts[0], else the digit parts[0]; None if it is none
numeral_tens(parts) ==
    IF parts[1] = <<>> THEN Continue(1)
    ELSE IF ~KeyIn(parts[1], digits) THEN Return(None)
    ELSE LET g == GetItem(digits, parts[1])
         IN  IF g.kind = "raise" THEN g ELSE Continue(g.value)

\* ones: 0, or the digit parts[1] when there is one; None if it is no digit
numeral_ones(parts) ==
    IF Len(parts) > 1 /\ parts[2] # <<>>
    THEN IF ~KeyIn(parts[2], digits) THEN Return(None)
         ELSE LET g == GetItem(digits, parts[2])
              IN  IF g.kind = "raise" THEN g ELSE Continue(g.value)
    ELSE Continue(0)

\* the branch `if "十" in s` with the tens scaled as hundreds
numeral_with_shi_hundreds(s) ==
    LET parts == Split(s, "shi")
    IN  IF Len(parts) = 2 /\ parts[1] = <<>> /\ parts[2] = <<>>
        THEN Return(Some(10))
        ELSE LET tens == numeral_tens(parts)
                 ones == numeral_ones(parts)
             IN  IF tens.kind # "next" THEN tens
                 ELSE IF ones.kind # "next" THEN ones
                 ELSE Return(Some(tens.value * 100 + ones.value))

\* the branch `if "十" in s`
numeral_with_shi(s) ==
    LET parts == Split(s, "shi")
    IN  IF Len(parts) = 2 /\ parts[1] = <<>> /\ parts[2] = <<>>
        THEN Return(Some(10))
        ELSE LET tens == numeral_tens(parts)
                 ones == numeral_ones(parts)
             IN  IF tens.kind # "next" THEN tens
                 ELSE IF ones.kind # "next" THEN ones
                 ELSE Return(Some(tens.value * 10 + ones.value))

RECURSIVE DigitSum(_)
DigitSum(s) == IF s = <<>> THEN 0 ELSE digits[s[1]] + DigitSum(Tail(s))

\* the all-digit branch adding the digit values up
numeral_all_digits_sum(s) == Return(Some(DigitSum(s)))

\* the branch `if all(ch in digits for ch in s)`
numeral_all_digits(s) ==
    LET joined == [i \in 1..Len(s) |-> py_str(digits[s[i]])[1]]
        n == py_int(joined)
    IN  IF n.kind = "raise" THEN n ELSE Return(Some(n.value))

_chinese_numeral_to_int(s0) ==
    LET s == Replace(s0, "liang", "er")
    IN  IF s = <<>> THEN Return(None)
        ELSE IF \A i \in 1..Len(s) : s[i] \in DOMAIN digits THEN numeral_all_digits(s)
        ELSE IF Contains(s, "shi") THEN numeral_with_shi(s)
        ELSE Return(None)

----------------------------------------------------------------------------
(* parse_wave_number *)

\* [0-9]{1,4}: the least and the most digits of the digit pattern
MinWaveDigits == 1
MaxWaveDigits == 4

\* the index after the longest run of at most `limit` glyphs of S from i on
\* (a greedy quantifier)
RECURSIVE SkipRun(_, _, _, _)
SkipRun(text, i, S, limit) ==
    IF limit > 0 /\ i <= Len(text) /\ text[i] \in S
    THEN SkipRun(text, i + 1, S, limit - 1)
    ELSE i

\* the pattern [第弟]\s*(body{lo,hi})\s*[波坡] matched at index i without the
\* optional whitespace
match_at_nospace(text, i, body, lo, hi) ==
    IF text[i] \notin Marker THEN None
    ELSE LET j == i + 1
             k == SkipRun(text, j, body, hi)
         IN  IF k - j >= lo /\ k <= Len(text) /\ text[k] \in Unit
             THEN Some(SubSeq(text, j, k - 1))
             ELSE None

\* the pattern [第弟]\s*(body{lo,hi})\s*[波坡] matched at index i: group 1, or
\* None.  The classes \s, body and [波坡] are pairwise disjoint, so a greedy
\* run that is followed by a mismatch cannot match after giving glyphs back.
match_at(text, i, body, lo, hi) ==
    IF text[i] \notin Marker THEN None
    ELSE LET j == SkipRun(text, i + 1, Whitespace, Len(text))
             k == SkipRun(text, j, body, hi)
             m == SkipRun(text, k, Whitespace, Len(text))
         IN  IF k - j >= lo /\ m <= Len(text) /\ text[m] \in Unit
             THEN Some(SubSeq(text, j, k - 1))
             ELSE None

\* pattern.search(text): group 1 of the leftmost match, or None
re_search(text, body, lo, hi) ==
    LET starts == {i \in 1..Len(text) : match_at(text, i, body, lo, hi) # None}
    IN  IF starts = {} THEN None
        ELSE match_at(text, CHOOSE i \in starts : \A j \in starts : i <= j,
                      body, lo, hi)

\* parse_wave_number trying the numeral pattern before the digit pattern
parse_wave_number_cn_first(text) ==
    LET normalized == _normalize_common_misread(text)
        match == re_search(normalized, AsciiDigits, MinWaveDigits, MaxWaveDigits)
        match_cn == re_search(text, CnNumerals, 1, Len(text))
        num == _chinese_numeral_to_int(match_cn[1])
    IN  IF match_cn # None /\ num.kind = "return" /\ num.value # None
        THEN Return(Some(py_str(num.value[1])))
        ELSE IF match # None THEN Return(Some(match[1]))
        ELSE Return(None)

parse_wave_number(text) ==
    LET normalized == _normalize_common_misread(text)
        match == re_search(normalized, AsciiDigits, MinWaveDigits, MaxWaveDigits)
    IN  IF match # None THEN Return(Some(match[1]))
        ELSE LET match_cn == re_search(text, CnNumerals, 1, Len(text))
             IN  IF match_cn # None
                 THEN LET num == _chinese_numeral_to_int(match_cn[1])
                      IN  IF num.kind = "raise" THEN num
                          ELSE IF num.value # None
                               THEN Return(Some(py_str(num.value[1])))
                               ELSE Return(None)
                 ELSE Return(None)

Call_chinese_numeral_to_int ==
    /\ op = "none"
    /\ Len(args) = 1
    /\ op' = "_chinese_numeral_to_int"
    /\ ret' = _chinese_numeral_to_int(args[1])
    /\ UNCHANGED <<args, monitor>>
    /\ UNCHANGED envVars
    /\ UNCHANGED appVars

Call_parse_wave_number ==
    /\ op = "none"
    /\ Len(args) = 1
    /\ op' = "parse_wave_number"
    /\ ret' = parse_wave_number(args[1])
    /\ UNCHANGED <<args, monitor>>
    /\ UNCHANGED envVars
    /\ UNCHANGED appVars

----------------------------------------------------------------------------
(* Inputs of the numeral conversion: numeral runs, and the phrases 第 run 波 *)

\* numeral runs are at most MaxNumeralLen glyphs long
MaxNumeralLen == 3
\* "x" is a character that is no numeral glyph
NumeralAlphabet == CnNumerals \cup {"x"}
NumeralInputs == UNION {[1..n -> NumeralAlphabet] : n \in 0..MaxNumeralLen}
NumeralRuns == UNION {[1..n -> CnNumerals] : n \in 1..MaxNumeralLen}
NumeralPhrases == {<<"di">> \o r \o <<"bo">> : r \in NumeralRuns}

InitNumeral ==
    /\ op = "none"
    /\ args \in {<<s>> : s \in NumeralInputs \cup NumeralPhrases}
    /\ ret = NotCalled
    /\ monitor = NoGrab
    /\ EnvIdle
    /\ AppIdle

NextNumeral ==
    \/ Call_chinese_numeral_to_int
    \/ Call_parse_wave_number

SpecNumeral == InitNumeral /\ [][NextNumeral]_vars

----------------------------------------------------------------------------
(* Inputs of the digit pattern: 第, digits and whitespace in any order, 波 *)

\* between 第 and 波 there are at most MaxBodyLen glyphs
MaxBodyLen == 6
DigitBodyAlphabet == {"1", "2", "sp", "nl"}
DigitBodies == UNION {[1..n -> DigitBodyAlphabet] : n \in 0..MaxBodyLen}

InitDigitPhrase ==
    /\ op = "none"
    /\ args \in {<< <<"di">> \o b \o <<"bo">> >> : b \in DigitBodies}
    /\ ret = NotCalled
    /\ monitor = NoGrab
    /\ EnvIdle
    /\ AppIdle

NextDigitPhrase == Call_parse_wave_number

SpecDigitPhrase == InitDigitPhrase /\ [][NextDigitPhrase]_vars

----------------------------------------------------------------------------
(* Inputs of parse_wave_number: any text over a small alphabet *)

\* texts are at most MaxTextLen glyphs long
MaxTextLen == 5
TextAlphabet == {"di", "bo", "1", "sp", "shi", "er", "x"}
Texts == UNION {[1..n -> TextAlphabet] : n \in 0..MaxTextLen}

InitParse ==
    /\ op = "none"
    /\ args \in {<<s>> : s \in Texts}
    /\ ret = NotCalled
    /\ monitor = NoGrab
    /\ EnvIdle
    /\ AppIdle

NextParse == Call_parse_wave_number

SpecParse == InitParse /\ [][NextParse]_vars


----------------------------------------------------------------------------
(* Inputs of the cascade: texts with markers, units, a digit and a numeral *)

\* texts are at most MaxCascadeLen glyphs long
MaxCascadeLen == 6
CascadeAlphabet == {"di", "di2", "bo", "po", "1", "er"}
CascadeTexts == UNION {[1..n -> CascadeAlphabet] : n \in 0..MaxCascadeLen}

InitCascade ==
    /\ op = "none"
    /\ args \in {<<s>> : s \in CascadeTexts}
    /\ ret = NotCalled
    /\ monitor = NoGrab
    /\ EnvIdle
    /\ AppIdle

NextCascade == Call_parse_wave_number

SpecCascade == InitCascade /\ [][NextCascade]_vars

----------------------------------------------------------------------------
(* Inputs of the normalization: 第, digits and misread glyphs, 波 *)

\* between 第 and 波 there are at most MaxMisreadLen glyphs
MaxMisreadLen == 5
MisreadAlphabet == {"1", "I", "l", "bar", "O", "o", "O0", "sp"}
MisreadBodies == UNION {[1..n -> MisreadAlphabet] : n \in 0..MaxMisreadLen}

InitMisread ==
    /\ op = "none"
    /\ args \in {<< <<"di">> \o b \o <<"bo">> >> : b \in MisreadBodies}
    /\ ret = NotCalled
    /\ monitor = NoGrab
    /\ EnvIdle
    /\ AppIdle

NextMisread == Call_parse_wave_number

SpecMisread == InitMisread /\ [][NextMisread]_vars

----------------------------------------------------------------------------
(* Recognition: capture_region, ocr_text, _recognize_center_digits and
   capture_and_recognize.  The OCR backend is outside the program: what
   reader.readtext returns or raises is chosen by the environment. *)

\* one entry of the log of calls: the method or backend call, whether it
\* succeeded, and (for parse_wave_number) the value it returned
Called(fn, ok, val) == [fn |-> fn, ok |-> ok, val |-> val]

\* what sct.grab and Image.frombytes give for a rectangle of the screen
grab_image(left, top, width, height) ==
    [size |-> <<width, height>>,
     px |-> [k \in 1..(width * height) |->
                screen[<<left + ((k - 1) % width), top + ((k - 1) \div width)>>]]]

\* the error of sct.grab passed on as it is
reraise_capture_error(exc) == Raise(exc)

\* except Exception as exc: raise ScreenCaptureError(...) from exc
wrap_capture_error(exc) == Raise("ScreenCaptureError")

\* the outcomes of capture_region on the screen: the returned image or the
\* raised error, the rectangle handed to sct.grab, the calls made
capture_region(x1, y1, x2, y2) ==
    LET box == normalize_box(x1, y1, x2, y2)
        width == box[3] - box[1]
        height == box[4] - box[2]
        mon == [grabbed |-> TRUE, left |-> box[1], top |-> box[2],
                width |-> width, height |-> height]
    IN  IF capture_region_rejects(width, height)
        THEN {[ret |-> Raise("ScreenCaptureError"), mon |-> NoGrab,
               calls |-> <<>>]}
        ELSE {[ret |-> Return(grab_image(box[1], box[2], width, height)),
               mon |-> mon, calls |-> <<Called("grab", TRUE, None)>>],
              [ret |-> wrap_capture_error("OSError"),
               mon |-> mon, calls |-> <<Called("grab", FALSE, None)>>]}

\* a readtext result holds at most MaxOcrGlyphs glyphs (MaxDigitGlyphs for
\* the pass over the centre of the image)
MaxOcrGlyphs == 3
MaxDigitGlyphs == 2

\* the glyphs of the two allowlists, and the glyphs a backend can give when
\* it is called without an allowlist; "fw2" is the full-width digit 2
MainAllowlist == {"di", "1", "bo"}
DigitAllowlist == {"1"}
MainGlyphs == MainAllowlist \cup {"x"}
CenterGlyphs == DigitAllowlist \cup {"fw2", "x"}

Strings(alphabet, lo, hi) == UNION {[1..n -> alphabet] : n \in lo..hi}

\* the lists of non-empty strings over the alphabet, n glyphs at most
RECURSIVE ResultLists(_, _)
ResultLists(alphabet, n) ==
    {<<>>} \cup
    UNION {{<<f>> \o r : r \in ResultLists(alphabet, n - Len(f))} :
              f \in Strings(alphabet, 1, n)}

\* reader.readtext(np_img, detail=0, paragraph=True[, allowlist=...])
readtext(alphabet, n) ==
    {Return(r) : r \in ResultLists(alphabet, n)}
        \cup {Raise("TypeError"), Raise("RuntimeError")}

\* sep.join(results)
RECURSIVE py_join(_, _)
py_join(sep, results) ==
    IF results = <<>> THEN <<>>
    ELSE IF Len(results) = 1 THEN results[1]
    ELSE results[1] \o sep \o py_join(sep, Tail(results))

\* the try block that retries after every error of the first call
retry_on_any_error(first, second) ==
    IF first.kind = "raise"
    THEN [ret |-> second,
          calls |-> <<Called("readtext_allowlist", FALSE, Some(first.exc)),
                      Called("readtext", second.kind = "return",
                             IF second.kind = "raise" THEN Some(second.exc)
                             ELSE None)>>]
    ELSE [ret |-> first,
          calls |-> <<Called("readtext_allowlist", TRUE, None)>>]

\* the try block that gives no fragments when the backend raises
retry_swallowing_errors(first, second) ==
    LET last == IF first = Raise("TypeError") THEN second ELSE first
    IN  [ret |-> IF last.kind = "raise" THEN Return(<<>>) ELSE last,
         calls |-> IF first = Raise("TypeError")
                   THEN <<Called("readtext_allowlist", FALSE, Some(first.exc)),
                          Called("readtext", second.kind = "return",
                                 IF second.kind = "raise" THEN Some(second.exc)
                                 ELSE None)>>
                   ELSE <<Called("readtext_allowlist", first.kind = "return",
                                 IF first.kind = "raise" THEN Some(first.exc)
                                 ELSE None)>>]

\* try: readtext(..., allowlist=...) except TypeError: readtext(...)
\* `first` is the outcome of the call with allowlist, `second` the outcome
\* of the call without it, which is made only after a TypeError; the value
\* is the results or the raised error, and the calls made
retry_on_type_error(first, second) ==
    IF first = Raise("TypeError")
    THEN [ret |-> second,
          calls |-> <<Called("readtext_allowlist", FALSE, Some(first.exc)),
                      Called("readtext", second.kind = "return",
                             IF second.kind = "raise" THEN Some(second.exc)
                             ELSE None)>>]
    ELSE [ret |-> first,
          calls |-> <<Called("readtext_allowlist", first.kind = "return",
                             IF first.kind = "raise" THEN Some(first.exc)
                             ELSE None)>>]

readtext_with_retry(allowlist, glyphs, n) ==
    UNION {IF first = Raise("TypeError")
           THEN {retry_on_type_error(first, second) :
                    second \in readtext(glyphs, n)}
           ELSE {retry_on_type_error(first, first)} :
             first \in readtext(allowlist, n)}

\* _preprocess_for_ocr: the image is enlarged; what the backend reads in
\* the pixels is the environment's choice, so only the size is kept
Scale(w) == IF w < 400 THEN 3 ELSE 2

_preprocess_for_ocr(image) ==
    [size |-> <<image.size[1] * Scale(image.size[1]),
                image.size[2] * Scale(image.size[1])>>]

\* ocr_text when the try block had the outcome o
ocr_text_given(image, o) ==
    LET np_img == _preprocess_for_ocr(image)
    IN  [ret |-> IF o.ret.kind = "return"
                 THEN Return(py_join(<<"nl">>, o.ret.value))
                 ELSE o.ret,
         calls |-> <<Called("ocr_text", TRUE, None)>> \o o.calls]

ocr_text(image) ==
    {ocr_text_given(image, o) :
        o \in readtext_with_retry(MainAllowlist, MainGlyphs, MaxOcrGlyphs)}

\* str.isdigit() of a one-glyph string
\* (every glyph with the Unicode property Numeric_Type Digit or Decimal)
isdigit(ch) == ch \in AsciiDigits \cup {"fw2"}

\* int(w * 0.3) and int(w * 0.7); the floating-point products round to these
\* integers for every width below 90
CropLeft(w) == (w * 3) \div 10
CropRight(w) == (w * 7) \div 10

\* the filter that keeps every glyph
py_filter_nothing(text) == text

RECURSIVE py_filter_digits(_)
py_filter_digits(text) ==
    IF text = <<>> THEN <<>>
    ELSE (IF isdigit(Head(text)) THEN <<Head(text)>> ELSE <<>>)
             \o py_filter_digits(Tail(text))

\* whether _recognize_center_digits returns before the crop
center_is_empty(image) ==
    LET w == image.size[1]
        h == image.size[2]
    IN  (w <= 0 \/ h <= 0) \/ CropRight(w) <= CropLeft(w)

\* _recognize_center_digits when the try block (if reached) had the outcome o
center_digits_given(image, o) ==
    LET entry == <<Called("_recognize_center_digits", TRUE, None)>>
    IN  IF center_is_empty(image) THEN [ret |-> Return(None), calls |-> entry]
        ELSE [ret |-> IF o.ret.kind = "return"
                      THEN LET digs == py_filter_digits(py_join(<<>>, o.ret.value))
                           IN  Return(IF digs = <<>> THEN None ELSE Some(digs))
                      ELSE o.ret,
              calls |-> entry \o o.calls]

_recognize_center_digits(image) ==
    IF center_is_empty(image)
    THEN {center_digits_given(image, retry_on_type_error(Return(<<>>), Return(<<>>)))}
    ELSE {center_digits_given(image, o) :
             o \in readtext_with_retry(DigitAllowlist, CenterGlyphs,
                                       MaxDigitGlyphs)}

\* the fallback that runs whatever parse_wave_number returned
number_is_none_always(number) == TRUE

\* `if number is None`
number_is_none(number) == number = None

capture_and_recognize(x1, y1, x2, y2) ==
    UNION {
      IF cap.ret.kind = "raise" THEN {cap}
      ELSE LET img == cap.ret.value
               center == _recognize_center_digits(img)
           IN  UNION {
        IF o.ret.kind = "raise"
        THEN {[ret |-> o.ret, mon |-> cap.mon, calls |-> cap.calls \o o.calls]}
        ELSE LET number == parse_wave_number(o.ret.value)
                 sofar == cap.calls \o o.calls \o
                          <<Called("parse_wave_number", number.kind = "return",
                                   IF number.kind = "return"
                                   THEN number.value ELSE None)>>
             IN  IF number.kind = "raise"
                 THEN {[ret |-> number, mon |-> cap.mon, calls |-> sofar]}
                 ELSE IF number_is_none(number.value)
                 THEN {[ret |-> f.ret, mon |-> cap.mon,
                        calls |-> sofar \o f.calls] : f \in center}
                 ELSE {[ret |-> number, mon |-> cap.mon, calls |-> sofar]} :
        o \in ocr_text(img)} :
      cap \in capture_region(x1, y1, x2, y2)}

Call_capture_and_recognize ==
    /\ op = "none"
    /\ Len(args) = 4
    /\ op' = "capture_and_recognize"
    /\ \E o \in capture_and_recognize(args[1], args[2], args[3], args[4]) :
           /\ ret' = o.ret
           /\ monitor' = o.mon
           /\ calls' = o.calls
    /\ UNCHANGED <<args, screen, now, dirExists, files, alpha_only>>
    /\ UNCHANGED appVars

\* the boxes handed to capture_and_recognize: empty, one and two pixels wide
RecognizeBoxes == {<<x1, 0, x2, y2>> : x1 \in 0..2, x2 \in 0..2, y2 \in 0..1}

InitRecognize ==
    /\ op = "none"
    /\ args \in RecognizeBoxes
    /\ ret = NotCalled
    /\ monitor = NoGrab
    /\ calls = <<>>
    /\ screen \in Screens
    /\ now = 0
    /\ dirExists = FALSE
    /\ files = NoFiles
    /\ alpha_only \in BOOLEAN
    /\ AppIdle

NextRecognize == Call_capture_and_recognize

SpecRecognize == InitRecognize /\ [][NextRecognize]_vars

----------------------------------------------------------------------------
(* Pixel sampling and the export of colour masks: get_pixel_color,
   _build_color_mask_image, _is_same_image, _image_already_exists and
   save_region_color_mask.  A file of save_dir is named by its timestamp. *)

\* the rectangle that is empty
pixel_box_empty(x, y) == <<x, y, x, y>>

\* capture_region(x, y, x + 1, y + 1)
pixel_box(x, y) == <<x, y, x + 1, y + 1>>

get_pixel_color(x, y) ==
    LET box == pixel_box(x, y)
    IN  {[ret |-> IF cap.ret.kind = "return"
                  THEN Return(cap.ret.value.px[1])
                  ELSE cap.ret,
          mon |-> cap.mon,
          calls |-> <<Called("get_pixel_color", TRUE, None)>> \o cap.calls] :
            cap \in capture_region(box[1], box[2], box[3], box[4])}

\* the mask in which the other pixels become transparent and keep their RGB
_build_color_mask_keep_rgb(region_img, target_color) ==
    [size |-> region_img.size,
     px |-> [k \in DOMAIN region_img.px |->
                IF region_img.px[k] = target_color
                THEN region_img.px[k] \o <<255>>
                ELSE region_img.px[k] \o <<0>>]]

_build_color_mask_image(region_img, target_color) ==
    [size |-> region_img.size,
     px |-> [k \in DOMAIN region_img.px |->
                IF /\ region_img.px[k][1] = target_color[1]
                   /\ region_img.px[k][2] = target_color[2]
                   /\ region_img.px[k][3] = target_color[3]
                THEN region_img.px[k] \o <<255>>
                ELSE <<0, 0, 0, 0>>]]

\* ImageChops.difference(img1, img2).getbbox() is None, for two RGBA images
\* of one size: getbbox looks at the alpha band only, or at all four bands
difference_is_empty(img1, img2) ==
    \A k \in DOMAIN img1.px :
        IF alpha_only THEN img1.px[k][4] = img2.px[k][4]
        ELSE img1.px[k] = img2.px[k]

_is_same_image(img1, img2) ==
    IF img1.size # img2.size THEN FALSE
    ELSE difference_is_empty(img1, img2)

\* the scan that finds no file
_image_never_exists(candidate, dir) == FALSE

_image_already_exists(candidate, dir) ==
    \E name \in DOMAIN dir : _is_same_image(candidate, dir[name])

\* the file name that does not depend on the time
filename_fixed(timestamp) == 0

\* f"{timestamp}.png"
filename(timestamp) == timestamp

\* save_region_color_mask on the arguments a, save_dir being the directory
\* of the model
save_region_color_mask(a) ==
    /\ op' = "save_region_color_mask"
    /\ args' = a
    /\ \E region \in capture_region(a[1], a[2], a[3], a[4]) :
         IF region.ret.kind = "raise"
         THEN /\ ret' = region.ret
              /\ monitor' = region.mon
              /\ calls' = region.calls
              /\ UNCHANGED <<dirExists, files>>
         ELSE \E target \in get_pixel_color(a[5], a[6]) :
                IF target.ret.kind = "raise"
                THEN /\ ret' = target.ret
                     /\ monitor' = target.mon
                     /\ calls' = region.calls \o target.calls
                     /\ UNCHANGED <<dirExists, files>>
                ELSE LET mask_img == _build_color_mask_image(region.ret.value,
                                                             target.ret.value)
                         sofar == region.calls \o target.calls \o
                                  <<Called("makedirs", TRUE, None),
                                    Called("listdir", TRUE, None)>>
                     IN  /\ monitor' = target.mon
                         /\ dirExists' = TRUE
                         /\ IF _image_already_exists(mask_img, files)
                            THEN /\ ret' = Return(None)
                                 /\ calls' = sofar
                                 /\ UNCHANGED files
                            ELSE LET save_path == filename(now)
                                 IN  /\ files' = [n \in DOMAIN files \cup {save_path} |->
                                                     IF n = save_path THEN mask_img
                                                     ELSE files[n]]
                                     /\ calls' = sofar \o <<Called("save", TRUE, None)>>
                                     /\ ret' = Return(Some(save_path))
    /\ UNCHANGED <<screen, now, alpha_only>>
    /\ UNCHANGED appVars

\* the arguments of save_region_color_mask: a row from the left edge of the
\* screen that is empty, one or two pixels wide, and a sample point
SaveArgs == {<<0, 0, x2, 1, cx, 0>> : x2 \in 0..2, cx \in 0..1}

Call_save_region_color_mask == \E a \in SaveArgs : save_region_color_mask(a)

Call_get_pixel_color ==
    \E p \in ScreenPoints :
        /\ op' = "get_pixel_color"
        /\ args' = p
        /\ \E o \in get_pixel_color(p[1], p[2]) :
               /\ ret' = o.ret
               /\ monitor' = o.mon
               /\ calls' = o.calls
        /\ UNCHANGED <<screen, now, dirExists, files, alpha_only>>
        /\ UNCHANGED appVars

\* the clock reaches MaxClock at most
MaxClock == 1

\* a second passes
Tick ==
    /\ now < MaxClock
    /\ now' = now + 1
    /\ op' = "tick"
    /\ args' = <<>>
    /\ ret' = NotCalled
    /\ calls' = <<>>
    /\ monitor' = NoGrab
    /\ UNCHANGED <<screen, dirExists, files, alpha_only>>
    /\ UNCHANGED appVars

\* the screen shows something else
Repaint ==
    /\ screen' \in Screens \ {screen}
    /\ op' = "repaint"
    /\ args' = <<>>
    /\ ret' = NotCalled
    /\ calls' = <<>>
    /\ monitor' = NoGrab
    /\ UNCHANGED <<now, dirExists, files, alpha_only>>
    /\ UNCHANGED appVars

InitExport ==
    /\ op = "none"
    /\ args = <<>>
    /\ ret = NotCalled
    /\ monitor = NoGrab
    /\ calls = <<>>
    /\ screen \in Screens
    /\ now = 0
    /\ dirExists \in BOOLEAN
    /\ files = NoFiles
    /\ alpha_only \in BOOLEAN
    /\ AppIdle

NextExport ==
    \/ Call_save_region_color_mask
    \/ Call_get_pixel_color
    \/ Tick
    \/ Repaint

SpecExport == InitExport /\ [][NextExport]_vars

----------------------------------------------------------------------------
(* Inputs of _build_color_mask_image: a row of pixels and a colour *)

\* the region is at most MaxMaskWidth pixels wide
MaxMaskWidth == 3
NearYellow == <<255, 214, 37>>
MaskColours == {Yellow, NearYellow, Black}
MaskRegions ==
    {[size |-> <<w, 1>>, px |-> px] :
        w \in 1..MaxMaskWidth, px \in Strings(MaskColours, 1, MaxMaskWidth)}

Call_build_color_mask_image ==
    /\ op = "none"
    /\ Len(args) = 2
    /\ op' = "_build_color_mask_image"
    /\ ret' = Return(_build_color_mask_image(args[1], args[2]))
    /\ UNCHANGED <<args, monitor>>
    /\ UNCHANGED envVars
    /\ UNCHANGED appVars

InitMask ==
    /\ op = "none"
    /\ args \in {<<img, c>> : img \in {r \in MaskRegions : Len(r.px) = r.size[1]},
                              c \in MaskColours}
    /\ ret = NotCalled
    /\ monitor = NoGrab
    /\ EnvIdle
    /\ AppIdle

NextMask == Call_build_color_mask_image

SpecMask == InitMask /\ [][NextMask]_vars

----------------------------------------------------------------------------
(* The recognizer as a whole: a first capture_and_recognize, or sampling
   and exporting *)

InitEngine ==
    /\ op = "none"
    /\ args \in {<<>>} \cup RecognizeBoxes
    /\ ret = NotCalled
    /\ monitor = NoGrab
    /\ calls = <<>>
    /\ screen \in Screens
    /\ now = 0
    /\ dirExists \in BOOLEAN
    /\ files = NoFiles
    /\ alpha_only \in BOOLEAN
    /\ AppIdle

NextEngine ==
    \/ Call_capture_and_recognize
    \/ Call_save_region_color_mask
    \/ Call_get_pixel_color
    \/ Tick
    \/ Repaint

SpecEngine == InitEngine /\ [][NextEngine]_vars

----------------------------------------------------------------------------
(* The two OCR passes on their own: ocr_text and _recognize_center_digits.
   The arguments hold the frame and what the backend answers to the call
   with allowlist and, after a TypeError, to the call without it. *)

\* frames one pixel high and one to three pixels wide
FrameImages == {[size |-> <<Len(px), 1>>, px |-> px] : px \in Strings(Colours, 1, 3)}

\* the answers of the backend to the first call and to the retry
BackendAnswers(allowlist, glyphs, n) ==
    {<<first, NotCalled>> : first \in readtext(allowlist, n) \ {Raise("TypeError")}}
        \cup {<<Raise("TypeError"), second>> : second \in readtext(glyphs, n)}

Call_ocr_text ==
    /\ op = "none"
    /\ Len(args) = 3
    /\ op' = "ocr_text"
    /\ LET o == ocr_text_given(args[1], retry_on_type_error(args[2], args[3]))
       IN  /\ ret' = o.ret
           /\ calls' = o.calls
    /\ UNCHANGED <<args, monitor, screen, now, dirExists, files, alpha_only>>
    /\ UNCHANGED appVars

InitOcr ==
    /\ op = "none"
    /\ args \in {<<img, b[1], b[2]>> :
                    img \in FrameImages,
                    b \in BackendAnswers(MainAllowlist, MainGlyphs, MaxOcrGlyphs)}
    /\ ret = NotCalled
    /\ monitor = NoGrab
    /\ EnvIdle
    /\ AppIdle

NextOcr == Call_ocr_text

SpecOcr == InitOcr /\ [][NextOcr]_vars

Call_recognize_center_digits ==
    /\ op = "none"
    /\ Len(args) = 3
    /\ op' = "_recognize_center_digits"
    /\ LET o == center_digits_given(args[1],
                                    retry_on_type_error(args[2], args[3]))
       IN  /\ ret' = o.ret
           /\ calls' = o.calls
    /\ UNCHANGED <<args, monitor, screen, now, dirExists, files, alpha_only>>
    /\ UNCHANGED appVars

InitCenter ==
    /\ op = "none"
    /\ args \in {<<img, b[1], b[2]>> :
                    img \in FrameImages,
                    b \in BackendAnswers(DigitAllowlist, CenterGlyphs, MaxDigitGlyphs)}
    /\ ret = NotCalled
    /\ monitor = NoGrab
    /\ EnvIdle
    /\ AppIdle

NextCenter == Call_recognize_center_digits

SpecCenter == InitCenter /\ [][NextCenter]_vars

----------------------------------------------------------------------------
(* Colour segmentation in _preprocess_for_ocr, on the enlarged frame.  The
   frame is a sequence of runs: n pixels of the colour c each. *)

\* the L1 distance to the target colour, at most 80
near_target_inclusive(c) ==
    Abs(c[1] - 255) + Abs(c[2] - 214) + Abs(c[3] - 36) <= 80

\* mask = diff < 80
near_target(c) ==
    Abs(c[1] - Yellow[1]) + Abs(c[2] - Yellow[2]) + Abs(c[3] - Yellow[3]) < 80

\* mask.sum(): the pixels of the mask that are set
RECURSIVE mask_sum(_)
mask_sum(arr) ==
    IF arr = <<>> THEN 0
    ELSE (IF near_target(Head(arr).c) THEN Head(arr).n ELSE 0)
             + mask_sum(Tail(arr))

\* mask.size
RECURSIVE mask_size(_)
mask_size(arr) ==
    IF arr = <<>> THEN 0 ELSE Head(arr).n + mask_size(Tail(arr))

\* ratio < 0.0005 or ratio > 0.5, with ratio = mask.mean() if mask.size > 0
\* else 0.0.  The quotient of the two counts is rounded to the nearest
\* double, and so is 0.0005, hence the comparisons are those of the exact
\* fractions.
ratio_outside_band(foreground, size) ==
    IF size > 0
    THEN foreground * 2000 < size \/ foreground * 2 > size
    ELSE TRUE

\* ImageOps.autocontrast of an image of mode L: the darkest value becomes 0
\* and the brightest 255, an image of one value is left as it is
autocontrast_L(runs) ==
    LET used == {runs[i].c : i \in {k \in 1..Len(runs) : runs[k].n > 0}}
    IN  IF Cardinality(used) < 2 THEN runs
        ELSE LET lo == CHOOSE v \in used : \A u \in used : v <= u
                 hi == CHOOSE v \in used : \A u \in used : v >= u
             IN  [i \in 1..Len(runs) |->
                     [c |-> ((runs[i].c - lo) * 255) \div (hi - lo), n |-> runs[i].n]]

\* lines 118 to 148 of _preprocess_for_ocr on the enlarged frame arr: the
\* binary image of mode L, or the enhanced RGB frame (its pixel values are
\* not modelled)
segment_or_enhance(arr) ==
    LET foreground == mask_sum(arr)
        size == mask_size(arr)
    IN  IF ratio_outside_band(foreground, size)
        THEN [mode |-> "RGB", enhanced |-> TRUE, runs |-> <<>>]
        ELSE [mode |-> "L", enhanced |-> FALSE,
              runs |-> autocontrast_L(
                  [i \in 1..Len(arr) |->
                      [c |-> IF near_target(arr[i].c) THEN 255 ELSE 0,
                       n |-> arr[i].n]])]

Call_segment_or_enhance ==
    /\ op = "none"
    /\ Len(args) = 1
    /\ op' = "_preprocess_for_ocr"
    /\ ret' = Return(segment_or_enhance(args[1]))
    /\ UNCHANGED <<args, monitor>>
    /\ UNCHANGED envVars
    /\ UNCHANGED appVars

\* a run is at most MaxPixelRun pixels long, or that close to 1999 pixels
MaxPixelRun == 2
RunLengths == (0..MaxPixelRun) \cup {1999 + d : d \in (-MaxPixelRun)..MaxPixelRun}

\* colours at the distances 0, 79, 80 and 505 from the target colour
SegmentColours == {Yellow, <<200, 190, 36>>, <<255, 214, 116>>, Black}

InitSegment ==
    /\ op = "none"
    /\ args \in {<< <<[c |-> c1, n |-> n1], [c |-> c2, n |-> n2]>> >> :
                    c1 \in SegmentColours, c2 \in SegmentColours,
                    n1 \in RunLengths, n2 \in RunLengths}
    /\ ret = NotCalled
    /\ monitor = NoGrab
    /\ EnvIdle
    /\ AppIdle

NextSegment == Call_segment_or_enhance

SpecSegment == InitSegment /\ [][NextSegment]_vars

----------------------------------------------------------------------------
(* Claims about the geometry *)

BoxRect(box) == <<box[1], box[2], box[3] - box[1], box[4] - box[2]>>
RegionRect(r) == <<r.left, r.top, r.width, r.height>>

\* C1: normalization gives the same (left, top, width, height) whichever
\* corner is passed first and whichever diagonal is used, and
\* create_region_from_points agrees with normalize_box.
C1_OrderIndependent ==
    LET x1 == args[1]
        y1 == args[2]
        x2 == args[3]
        y2 == args[4]
        Others == {normalize_box(x2, y2, x1, y1), normalize_box(x1, y2, x2, y1),
                   normalize_box(x2, y1, x1, y2)}
    IN  /\ op = "normalize_box" =>
              /\ ret.kind = "return"
              /\ \A b \in Others : BoxRect(b) = BoxRect(ret.value)
        /\ op = "create_region_from_points" =>
              /\ ret.kind = "return"
              /\ \A b \in Others \cup {normalize_box(x1, y1, x2, y2)} :
                     RegionRect(ret.value) = BoxRect(b)

C1_Witness ==
    /\ op = "create_region_from_points"
    /\ args[1] > args[3]
    /\ args[2] < args[4]
    /\ ret.kind = "return"
    /\ ret.value.width > 0

\* C2: normalize_box always returns (left, top, right, bottom) with
\* left <= right and top <= bottom, left and top being the smaller and right
\* and bottom the larger of the two coordinates; it never raises.
C2_Ordered ==
    op = "normalize_box" =>
        /\ ret.kind = "return"
        /\ LET left == ret.value[1]
               top == ret.value[2]
               right == ret.value[3]
               bottom == ret.value[4]
           IN  /\ Len(ret.value) = 4
               /\ left <= right /\ top <= bottom
               /\ {left, right} = {args[1], args[3]}
               /\ {top, bottom} = {args[2], args[4]}

C2_Witness ==
    /\ op = "normalize_box"
    /\ args[1] > args[3]
    /\ args[2] > args[4]
    /\ ret.kind = "return"
    /\ ret.value[1] < ret.value[3]

\* C3: capture_region raises ScreenCaptureError whenever x1 = x2 or y1 = y2
\* without invoking the OS grab, and every rectangle handed to the OS grab
\* has width > 0 and height > 0.
C3_RejectsEmptyBeforeGrab ==
    /\ (op = "capture_region" /\ (args[1] = args[3] \/ args[2] = args[4])) =>
           /\ ret = Raise("ScreenCaptureError")
           /\ monitor = NoGrab
    /\ monitor.grabbed => (monitor.width > 0 /\ monitor.height > 0)

C3_Witness ==
    /\ op = "capture_region"
    /\ args[1] = args[3]
    /\ args[2] # args[4]
    /\ ret = Raise("ScreenCaptureError")
    /\ monitor = NoGrab

----------------------------------------------------------------------------
(* Claims about parse_wave_number and _chinese_numeral_to_int *)

\* the glyphs between the first and the last glyph of the text
Body(text) == SubSeq(text, 2, Len(text) - 1)

RECURSIVE DigitsOf(_)
DigitsOf(s) ==
    IF s = <<>> THEN <<>>
    ELSE IF s[1] \in AsciiDigits THEN <<s[1]>> \o DigitsOf(Tail(s))
    ELSE DigitsOf(Tail(s))

\* whitespace, then one contiguous run of digits, then whitespace
ContiguousDigits(b) ==
    \E i \in 1..Len(b) : \E j \in i..Len(b) :
        /\ \A k \in 1..Len(b) : (k < i \/ k > j) => b[k] \in Whitespace
        /\ \A k \in i..j : b[k] \in AsciiDigits

\* C4 as stated: 第, then 1 to 4 digits with whitespace before, between and
\* after the digits, then 波, parses to the digits in order.
C4_InterleavedWhitespace ==
    (/\ op = "parse_wave_number"
     /\ (\A k \in 1..Len(Body(args[1])) :
             Body(args[1])[k] \in AsciiDigits \cup Whitespace)
     /\ Len(DigitsOf(Body(args[1]))) \in MinWaveDigits..MaxWaveDigits)
    => ret = Return(Some(DigitsOf(Body(args[1]))))

\* C4 as amended: 第, then whitespace, then one contiguous run of 1 to 4
\* digits, then whitespace, then 波, parses to that digit run.
C4_ContiguousDigitRun ==
    (/\ op = "parse_wave_number"
     /\ ContiguousDigits(Body(args[1]))
     /\ Len(DigitsOf(Body(args[1]))) \in MinWaveDigits..MaxWaveDigits)
    => ret = Return(Some(DigitsOf(Body(args[1]))))

C4_Witness ==
    /\ op = "parse_wave_number"
    /\ args[1] = <<"di", "sp", "1", "2", "nl", "bo">>
    /\ ret = Return(Some(<<"1", "2">>))

\* no marker glyph is followed, anywhere later, by a unit glyph
NoPhrase(text) ==
    ~\E i \in 1..Len(text) : \E j \in (i + 1)..Len(text) :
        text[i] \in Marker /\ text[j] \in Unit

\* the numeral pattern matches, the digit pattern does not, and the
\* conversion of the matched run fails
ConversionFails(text) ==
    /\ re_search(_normalize_common_misread(text), AsciiDigits,
                 MinWaveDigits, MaxWaveDigits) = None
    /\ re_search(text, CnNumerals, 1, Len(text)) # None
    /\ _chinese_numeral_to_int(re_search(text, CnNumerals, 1, Len(text))[1])
           = Return(None)

\* C5: parse_wave_number never raises; it returns None for a text without a
\* marker ... unit phrase and for a numeral match whose conversion fails.
C5_NeverRaises ==
    op = "parse_wave_number" =>
        /\ ret.kind = "return"
        /\ ((NoPhrase(args[1]) \/ ConversionFails(args[1])) => ret = Return(None))

C5_Witness ==
    /\ op = "parse_wave_number"
    /\ args[1] = <<"di", "er", "er", "shi", "bo">>
    /\ ConversionFails(args[1])
    /\ ret = Return(None)

\* the value of a single-digit glyph, 两 counting as 二
GlyphDigit(g) ==
    IF g = "liang" THEN 2
    ELSE CHOOSE d \in 0..9 :
             <<"ling", "yi", "er", "san", "si", "wu", "liu", "qi", "ba", "jiu">>[d + 1] = g

IsDigitGlyph(g) == g \in (CnNumerals \ {"shi"})

\* the index of the first 十 of a run that has one
FirstShi(s) == CHOOSE i \in 1..Len(s) : s[i] = "shi" /\ \A j \in 1..(i - 1) : s[j] # "shi"

\* the tens-split grammar: [digit] 十 [digit], as tens*10 + ones; None otherwise
TensSplitValue(s) ==
    LET i == FirstShi(s)
        prefix == SubSeq(s, 1, i - 1)
        suffix == SubSeq(s, i + 1, Len(s))
        Ok(p) == p = <<>> \/ (Len(p) = 1 /\ IsDigitGlyph(p[1]))
    IN  IF Ok(prefix) /\ Ok(suffix)
        THEN Some((IF prefix = <<>> THEN 1 ELSE GlyphDigit(prefix[1])) * 10
                  + (IF suffix = <<>> THEN 0 ELSE GlyphDigit(suffix[1])))
        ELSE None

IsNumeralRun(s) == s # <<>> /\ \A i \in 1..Len(s) : s[i] \in CnNumerals
IsNumeralPhrase(text) ==
    /\ Len(text) >= 3
    /\ text[1] = "di"
    /\ text[Len(text)] = "bo"
    /\ IsNumeralRun(Body(text))

\* C6: a numeral run with 十 between 第 and 波 gives tens*10 + ones, with
\* tens = 1 for an empty prefix, the prefix and the suffix being empty or one
\* digit glyph; any other prefix or suffix gives None.
C6_TensSplit ==
    /\ (/\ op = "_chinese_numeral_to_int"
        /\ IsNumeralRun(args[1])
        /\ Contains(args[1], "shi"))
       => ret = Return(TensSplitValue(args[1]))
    /\ (/\ op = "parse_wave_number"
        /\ IsNumeralPhrase(args[1])
        /\ Contains(Body(args[1]), "shi"))
       => ret = Return(IF TensSplitValue(Body(args[1])) = None THEN None
                       ELSE Some(py_str(TensSplitValue(Body(args[1]))[1])))

RECURSIVE Pow10(_)
Pow10(n) == IF n = 0 THEN 1 ELSE 10 * Pow10(n - 1)

\* C7 as stated: on a run of numeral glyphs the conversion returns None or an
\* integer in 0..99.
C7_Within99 ==
    (op = "_chinese_numeral_to_int" /\ IsNumeralRun(args[1])) =>
        /\ ret.kind = "return"
        /\ (ret.value # None => ret.value[1] \in 0..99)

\* C7 as amended: on a run of numeral glyphs the conversion returns None or an
\* integer n >= 0; n is in 0..99 when the run contains 十 or has at most two
\* glyphs, and n < 10^length when the run has no 十.
C7_BoundedByLength ==
    (op = "_chinese_numeral_to_int" /\ IsNumeralRun(args[1])) =>
        /\ ret.kind = "return"
        /\ (ret.value # None =>
               /\ ret.value[1] >= 0
               /\ ((Contains(args[1], "shi") \/ Len(args[1]) <= 2)
                      => ret.value[1] <= 99)
               /\ (~Contains(args[1], "shi")
                      => ret.value[1] < Pow10(Len(args[1]))))

C7_Witness ==
    /\ op = "_chinese_numeral_to_int"
    /\ args[1] = <<"jiu", "shi", "jiu">>
    /\ ret = Return(Some(99))

\* C8: a run of three or more numeral glyphs with 十 that is not
\* digit 十 digit (any run with more than one 十) converts to None.
C8_OutsideGrammarAbsent ==
    (/\ op = "_chinese_numeral_to_int"
     /\ IsNumeralRun(args[1])
     /\ Len(args[1]) >= 3
     /\ Contains(args[1], "shi")
     /\ ~(/\ Len(args[1]) = 3
          /\ IsDigitGlyph(args[1][1])
          /\ args[1][2] = "shi"
          /\ IsDigitGlyph(args[1][3])))
    => ret = Return(None)

\* C9: a string with a character that is no numeral glyph converts to None.
C9_UnrecognizedAbsent ==
    (/\ op = "_chinese_numeral_to_int"
     /\ (\E i \in 1..Len(args[1]) : args[1][i] \notin CnNumerals))
    => ret = Return(None)

RECURSIVE PositionalValue(_)
PositionalValue(s) ==
    IF s = <<>> THEN 0
    ELSE GlyphDigit(s[1]) * Pow10(Len(s) - 1) + PositionalValue(Tail(s))

IsDigitRun(s) == s # <<>> /\ \A i \in 1..Len(s) : IsDigitGlyph(s[i])

\* C10: a run of single-digit glyphs (两 as 二) converts to the number whose
\* decimal digits are the digit values in order, and 第 run 波 parses to the
\* decimal string of that number.
C10_DigitConcatenation ==
    /\ (op = "_chinese_numeral_to_int" /\ IsDigitRun(args[1]))
       => ret = Return(Some(PositionalValue(args[1])))
    /\ (/\ op = "parse_wave_number"
        /\ IsNumeralPhrase(args[1])
        /\ IsDigitRun(Body(args[1])))
       => /\ ret.kind = "return"
          /\ ret.value # None
          /\ DecimalValue(ret.value[1]) = PositionalValue(Body(args[1]))
          /\ (Len(ret.value[1]) = 1 \/ ret.value[1][1] # "0")

C10_Witness ==
    /\ op = "_chinese_numeral_to_int"
    /\ args[1] = <<"liang", "san">>
    /\ ret = Return(Some(23))

----------------------------------------------------------------------------
(* Claims about the cascade of parse_wave_number *)

\* t[i] is a marker of M, t[j] a unit of U, and between them there is only
\* optional whitespace around one run of glyphs of `body`, lo to hi long
PhraseAt(t, i, j, M, U, body, lo, hi) ==
    /\ i < j
    /\ t[i] \in M
    /\ t[j] \in U
    /\ \E a \in (i + 1)..(j - 1) : \E b \in a..(j - 1) :
           /\ b - a + 1 >= lo
           /\ b - a + 1 <= hi
           /\ \A k \in (i + 1)..(j - 1) :
                  IF k < a \/ k > b THEN t[k] \in Whitespace ELSE t[k] \in body

Spans(t) == {<<i, j>> \in (1..Len(t)) \X (1..Len(t)) : i < j}

\* the digit phrases of t whose marker is in M and whose unit is in U
DigitPhrases(t, M, U) ==
    {p \in Spans(t) :
        PhraseAt(t, p[1], p[2], M, U, AsciiDigits, MinWaveDigits, MaxWaveDigits)}

\* the numeral phrases of t whose marker is in M and whose unit is in U
CnPhrases(t, M, U) ==
    {p \in Spans(t) : PhraseAt(t, p[1], p[2], M, U, CnNumerals, 1, Len(t))}

Leftmost(ps) == CHOOSE p \in ps : \A q \in ps : p[1] <= q[1]

\* the glyphs of `body` between the marker and the unit of the phrase p
PhraseRun(t, p, body) ==
    LET inner == SubSeq(t, p[1] + 1, p[2] - 1)
        keep == {k \in 1..Len(inner) : inner[k] \in body}
    IN  IF keep = {} THEN <<>>
        ELSE SubSeq(inner, CHOOSE k \in keep : \A m \in keep : k <= m,
                    CHOOSE k \in keep : \A m \in keep : k >= m)

AllMarkers == {"di", "di2"}
AllUnits == {"bo", "po"}

\* C11: when the text contains a digit phrase anywhere, parse_wave_number
\* returns the digits of the (leftmost) digit phrase, even if a numeral phrase
\* occurs earlier in the text.
C11_DigitPatternFirst ==
    LET t == args[1]
        ds == DigitPhrases(t, AllMarkers, AllUnits)
    IN  (op = "parse_wave_number" /\ ds # {}) =>
            ret = Return(Some(PhraseRun(t, Leftmost(ds), AsciiDigits)))

C11_Witness ==
    /\ op = "parse_wave_number"
    /\ args[1] = <<"di", "er", "bo", "di", "1", "bo">>
    /\ CnPhrases(args[1], AllMarkers, AllUnits) = {<<1, 3>>}
    /\ ret = Return(Some(<<"1">>))

\* the text has a numeral phrase 第 run 波 whose run converts, and digit
\* phrases, none of them written with both 第 and 波
RelaxedDigitAndFixedNumeral(t) ==
    /\ DigitPhrases(t, AllMarkers, AllUnits) # {}
    /\ DigitPhrases(t, {"di"}, {"bo"}) = {}
    /\ CnPhrases(t, {"di"}, {"bo"}) # {}
    /\ _chinese_numeral_to_int(
           PhraseRun(t, Leftmost(CnPhrases(t, {"di"}, {"bo"})), CnNumerals)).value
           # None

\* C12 as stated: a numeral phrase with 第 and 波 is returned in preference to
\* a digit phrase written with the variants 弟 or 坡.
C12_FixedNumeralBeforeRelaxedDigit ==
    LET t == args[1]
    IN  (op = "parse_wave_number" /\ RelaxedDigitAndFixedNumeral(t)) =>
            ret = Return(Some(py_str(
                      _chinese_numeral_to_int(
                          PhraseRun(t, Leftmost(CnPhrases(t, {"di"}, {"bo"})),
                                    CnNumerals)).value[1])))

\* C12 as amended: the variants 弟 and 坡 are accepted by the first step of
\* the cascade, so a digit phrase written with them is returned in preference
\* to a numeral phrase with 第 and 波.
C12_RelaxedDigitBeforeFixedNumeral ==
    LET t == args[1]
    IN  (op = "parse_wave_number" /\ RelaxedDigitAndFixedNumeral(t)) =>
            ret = Return(Some(PhraseRun(
                      t, Leftmost(DigitPhrases(t, AllMarkers, AllUnits)),
                      AsciiDigits)))

C12_Witness ==
    /\ op = "parse_wave_number"
    /\ args[1] = <<"di", "er", "bo", "di2", "1", "po">>
    /\ RelaxedDigitAndFixedNumeral(args[1])
    /\ ret = Return(Some(<<"1">>))

\* the digit a glyph is read as: itself, 1 for I l |, 0 for O o 〇
ReadAs(g) ==
    IF g \in {"I", "l", "bar"} THEN "1"
    ELSE IF g \in {"O", "o", "O0"} THEN "0"
    ELSE g

Confusable == {"I", "l", "bar", "O", "o", "O0"}

\* C13: in 第 ... 波 with optional whitespace around a run of 1 to 4 glyphs,
\* each an ASCII digit or a glyph misread for 1 or 0, parse_wave_number
\* returns the run with every misread glyph replaced by its digit.
C13_MisreadNormalized ==
    LET t == args[1]
        run == PhraseRun(t, <<1, Len(t)>>, AsciiDigits \cup Confusable)
    IN  (/\ op = "parse_wave_number"
         /\ Len(t) >= 3
         /\ PhraseAt(t, 1, Len(t), {"di"}, {"bo"}, AsciiDigits \cup Confusable,
                     MinWaveDigits, MaxWaveDigits))
        => ret = Return(Some([k \in 1..Len(run) |-> ReadAs(run[k])]))

C13_Witness ==
    /\ op = "parse_wave_number"
    /\ args[1] = <<"di", "sp", "I", "O", "bo">>
    /\ ret = Return(Some(<<"1", "0">>))

----------------------------------------------------------------------------
(* Claims about capture_and_recognize *)

\* the positions of the log where fn was called
Positions(fn) == {i \in 1..Len(calls) : calls[i].fn = fn}

\* C14: every value returned by capture_and_recognize is None or a
\* non-empty string of the ASCII digits 0 to 9, on every path, the retry
\* of the centre pass without allowlist included.
C14_AbsentOrAsciiDigits ==
    (op = "capture_and_recognize" /\ ret.kind = "return") =>
        \/ ret.value = None
        \/ /\ Len(ret.value[1]) >= 1
           /\ \A k \in 1..Len(ret.value[1]) : ret.value[1][k] \in AsciiDigits

\* C15: in capture_and_recognize the steps are capture, OCR, parse and then
\* the centre pass; the centre pass runs only after parse_wave_number
\* returned None, and when parse_wave_number returned digits they are
\* returned unchanged and no further OCR call is made.
C15_FallbackOnlyOnAbsent ==
    op = "capture_and_recognize" =>
        LET G == Positions("grab")
            O == Positions("ocr_text")
            P == Positions("parse_wave_number")
            F == Positions("_recognize_center_digits")
        IN  /\ Cardinality(G) <= 1 /\ Cardinality(O) <= 1
            /\ Cardinality(P) <= 1 /\ Cardinality(F) <= 1
            /\ (O # {} => (G = {1} /\ calls[1].ok /\ O = {2}))
            /\ (P # {} => O # {})
            /\ (\A i \in P : \A j \in O : j < i)
            /\ (\A i \in F : /\ P = {i - 1}
                             /\ calls[i - 1].ok
                             /\ calls[i - 1].val = None)
            /\ (\A i \in P : (calls[i].ok /\ calls[i].val # None) =>
                   /\ F = {}
                   /\ Len(calls) = i
                   /\ ret = Return(calls[i].val))

C15_Witness ==
    /\ op = "capture_and_recognize"
    /\ Len(calls) = 4
    /\ calls[4] = Called("parse_wave_number", TRUE, Some(<<"1">>))
    /\ ret = Return(Some(<<"1">>))

----------------------------------------------------------------------------
(* Claims about sampling and export *)

\* the mask of the region and sample point a on the present screen, pixel by
\* pixel: the pixel with alpha 255 where it has the sampled colour,
\* transparent black elsewhere
MaskOnScreen(a) ==
    LET box == normalize_box(a[1], a[2], a[3], a[4])
        w == box[3] - box[1]
        h == box[4] - box[2]
        c == screen[<<a[5], a[6]>>]
    IN  [size |-> <<w, h>>,
         px |-> [k \in 1..(w * h) |->
                    LET p == screen[<<box[1] + ((k - 1) % w), box[2] + ((k - 1) \div w)>>]
                    IN  IF p = c THEN <<p[1], p[2], p[3], 255>>
                        ELSE <<0, 0, 0, 0>>]]

IsSave(o) == o = "save_region_color_mask"

\* C16: exporting the same region and sample point twice in sequence, the
\* screen unchanged and the directory holding no identical image before,
\* leaves exactly one new file: the first call returns a path and the
\* second returns None without writing.
C16_SecondExportIsDuplicate ==
    [][/\ (/\ IsSave(op')
           /\ ret'.kind = "return"
           /\ now \notin DOMAIN files
           /\ (\A n \in DOMAIN files : files[n] # MaskOnScreen(args')))
          => /\ ret' = Return(Some(now))
             /\ DOMAIN files' = DOMAIN files \cup {now}
             /\ files'[now] = MaskOnScreen(args')
             /\ (\A n \in DOMAIN files : files'[n] = files[n])
       /\ (/\ IsSave(op) /\ ret.kind = "return" /\ ret.value # None
           /\ IsSave(op') /\ args' = args /\ ret'.kind = "return")
          => /\ ret' = Return(None)
             /\ files' = files]_vars

\* C17 as stated: a file written by a call is never overwritten or changed
\* by a later call.
C17_NeverOverwritten ==
    [][\A n \in DOMAIN files :
           n \in DOMAIN files' /\ files'[n] = files[n]]_vars

\* C17 as amended: a file is never removed, and its content changes only
\* when a save_region_color_mask call made in the second the file is named
\* after writes another mask under that name.
C17_OverwrittenOnlyInSameSecond ==
    [][\A n \in DOMAIN files :
           /\ n \in DOMAIN files'
           /\ (files'[n] # files[n] =>
                  /\ IsSave(op')
                  /\ n = now
                  /\ ret' = Return(Some(n)))]_vars

C17_Witness ==
    /\ IsSave(op)
    /\ now = 1
    /\ ret = Return(Some(1))
    /\ DOMAIN files = {0, 1}
    /\ files[0] # files[1]

\* C18: the mask has the size of the region; a pixel whose R, G and B equal
\* the sampled colour is (R, G, B, 255) and every other pixel is (0, 0, 0, 0).
C18_MaskPixels ==
    op = "_build_color_mask_image" =>
        LET region == args[1]
            c == args[2]
            mask == ret.value
        IN  /\ ret.kind = "return"
            /\ mask.size = region.size
            /\ DOMAIN mask.px = DOMAIN region.px
            /\ (\A k \in DOMAIN region.px :
                   IF region.px[k] = c
                   THEN mask.px[k] = <<c[1], c[2], c[3], 255>>
                   ELSE mask.px[k] = <<0, 0, 0, 0>>)

C18_Witness ==
    /\ op = "_build_color_mask_image"
    /\ args = <<[size |-> <<3, 1>>, px |-> <<Yellow, NearYellow, Black>>], Yellow>>
    /\ ret.value.px = <<<<255, 214, 36, 255>>, <<0, 0, 0, 0>>, <<0, 0, 0, 0>>>>

\* C19: get_pixel_color(x, y) grabs the rectangle of width 1 and height 1 at
\* (x, y); it returns the colour of that pixel, three integers in 0..255,
\* when the grab succeeds, and raises ScreenCaptureError exactly when the
\* grab fails.
C19_OnePixelCapture ==
    op = "get_pixel_color" =>
        /\ monitor = [grabbed |-> TRUE, left |-> args[1], top |-> args[2],
                      width |-> 1, height |-> 1]
        /\ Len(calls) = 2
        /\ calls[2].fn = "grab"
        /\ IF calls[2].ok
           THEN /\ ret = Return(screen[args])
                /\ (\A k \in 1..3 : ret.value[k] \in 0..255)
           ELSE ret = Raise("ScreenCaptureError")

C19_Witness ==
    /\ op = "get_pixel_color"
    /\ args = <<1, 0>>
    /\ screen[<<0, 0>>] = Black
    /\ ret = Return(Yellow)

\* the successful grabs in a log of calls
Grabs(log) == {i \in 1..Len(log) : log[i].fn = "grab" /\ log[i].ok}

\* C20: when the capture fails, capture_and_recognize raises
\* ScreenCaptureError and makes no OCR call; when the capture of the region
\* or of the sample pixel fails, save_region_color_mask raises
\* ScreenCaptureError, creates no directory and writes no file.
C20_CaptureFailurePropagates ==
    [][/\ (op' = "capture_and_recognize" /\ Grabs(calls') = {})
          => /\ ret' = Raise("ScreenCaptureError")
             /\ (\A i \in 1..Len(calls') : calls'[i].fn = "grab")
             /\ dirExists' = dirExists
             /\ files' = files
       /\ (IsSave(op') /\ Cardinality(Grabs(calls')) < 2)
          => /\ ret' = Raise("ScreenCaptureError")
             /\ (\A i \in 1..Len(calls') :
                    calls'[i].fn \in {"grab", "get_pixel_color"})
             /\ dirExists' = dirExists
             /\ files' = files]_vars

C20_Witness ==
    /\ IsSave(op)
    /\ Len(calls) = 3
    /\ calls[1] = Called("grab", TRUE, None)
    /\ calls[3] = Called("grab", FALSE, None)
    /\ ret = Raise("ScreenCaptureError")
    /\ dirExists = FALSE
    /\ files = NoFiles

----------------------------------------------------------------------------
(* Claims about the OCR passes *)

IsReadtext(c) == c.fn \in {"readtext_allowlist", "readtext"}

\* C21 as stated: when a call of the backend raises, in the full-frame pass
\* or in the centre pass, capture_and_recognize raises; it returns neither
\* None nor digits.
C21_BackendErrorPropagates ==
    (/\ op = "capture_and_recognize"
     /\ (\E i \in 1..Len(calls) : IsReadtext(calls[i]) /\ ~calls[i].ok))
    => ret.kind = "raise"

\* C21 as amended: an error of the backend ends capture_and_recognize with
\* that error, except a TypeError of the call with allowlist, which is
\* followed by the call without allowlist.
C21_ErrorPropagatesExceptAllowlistTypeError ==
    op = "capture_and_recognize" =>
        \A i \in 1..Len(calls) :
            (IsReadtext(calls[i]) /\ ~calls[i].ok) =>
                IF calls[i] = Called("readtext_allowlist", FALSE, Some("TypeError"))
                THEN i < Len(calls) /\ calls[i + 1].fn = "readtext"
                ELSE i = Len(calls) /\ ret = Raise(calls[i].val[1])

C21_Witness ==
    /\ op = "capture_and_recognize"
    /\ Len(calls) = 6
    /\ calls[5].fn = "_recognize_center_digits"
    /\ calls[6] = Called("readtext_allowlist", FALSE, Some("RuntimeError"))
    /\ ret = Raise("RuntimeError")

\* C24: ocr_text calls the backend with the allowlist first; it calls it
\* once more, without allowlist, exactly when the first call raised
\* TypeError; the text is the fragments of the call that succeeded, in
\* order, with a newline between two fragments.
C24_RetryOnlyOnTypeError ==
    op = "ocr_text" =>
        LET answered == IF args[2] = Raise("TypeError") THEN args[3] ELSE args[2]
        IN  /\ Len(calls) \in {2, 3}
            /\ calls[2].fn = "readtext_allowlist"
            /\ (Len(calls) = 3 <=> args[2] = Raise("TypeError"))
            /\ (Len(calls) = 3 => calls[3].fn = "readtext")
            /\ IF answered.kind = "return"
               THEN /\ ret.kind = "return"
                    /\ IF answered.value = <<>> THEN ret.value = <<>>
                       ELSE Split(ret.value, "nl") = answered.value
               ELSE ret = answered

C24_Witness ==
    /\ op = "ocr_text"
    /\ args[2] = Raise("TypeError")
    /\ args[3] = Return(<< <<"di", "1">>, <<"bo">> >>)
    /\ ret = Return(<<"di", "1", "nl", "bo">>)

\* the glyphs of all fragments, in order
RECURSIVE Glyphs(_)
Glyphs(results) ==
    IF results = <<>> THEN <<>>
    ELSE Glyphs(SubSeq(results, 1, Len(results) - 1)) \o results[Len(results)]

\* a character that str.isdigit() accepts: 0 to 9 and the digits of other
\* scripts and forms
IsDigitCharacter(ch) == ch \in AsciiDigits \cup {"fw2"}

----------------------------------------------------------------------------
(* Claims about the colour segmentation *)

\* the pixels of the frame that are foreground: |r-255|+|g-214|+|b-36| < 80
ForegroundPixels(arr) ==
    LET d(c) == Abs(c[1] - 255) + Abs(c[2] - 214) + Abs(c[3] - 36)
        count[i \in 0..Len(arr)] ==
            IF i = 0 THEN 0
            ELSE count[i - 1] + (IF d(arr[i].c) < 80 THEN arr[i].n ELSE 0)
    IN  count[Len(arr)]

AllPixels(arr) ==
    LET count[i \in 0..Len(arr)] ==
            IF i = 0 THEN 0 ELSE count[i - 1] + arr[i].n
    IN  count[Len(arr)]

\* C26: _preprocess_for_ocr returns the binary mask, white where the pixel
\* is foreground and black elsewhere, iff 0.0005 <= ratio <= 0.5, where
\* ratio is the share of foreground pixels (0 for a frame without pixels);
\* for every other ratio it returns the enhanced frame.
C26_SegmentationBand ==
    op = "_preprocess_for_ocr" =>
        LET arr == args[1]
            f == ForegroundPixels(arr)
            n == AllPixels(arr)
            inBand == n > 0 /\ 2000 * f >= n /\ 2 * f <= n
        IN  /\ ret.kind = "return"
            /\ (ret.value.mode = "L" <=> inBand)
            /\ (ret.value.mode = "RGB" <=> ~inBand)
            /\ (inBand => \A i \in 1..Len(arr) :
                   /\ ret.value.runs[i].n = arr[i].n
                   /\ ret.value.runs[i].c =
                          IF Abs(arr[i].c[1] - 255) + Abs(arr[i].c[2] - 214)
                                 + Abs(arr[i].c[3] - 36) < 80
                          THEN 255 ELSE 0)
            /\ (~inBand => ret.value.enhanced)

C26_Witness ==
    /\ op = "_preprocess_for_ocr"
    /\ args[1] = <<[c |-> <<200, 190, 36>>, n |-> 1],
                   [c |-> <<255, 214, 116>>, n |-> 1999]>>
    /\ ret.value.mode = "L"
    /\ ret.value.runs = <<[c |-> 255, n |-> 1], [c |-> 0, n |-> 1999]>>

----------------------------------------------------------------------------
(* WaveNumberApp: the recognition toggle _on_recognize, the worker thread
   _recognize_loop and _on_close.  wave_app.workers holds one record for
   every thread that was started, in the order of their start; a record
   is the position of the thread in _recognize_loop and the text of its
   iteration.  The fields that only feed the log line and the button
   (_recognize_seconds, the button text) are left out. *)

\* the threads that are started at most
MaxWorkers == 2

\* what capture_and_recognize gives to its caller
EngineOutcomes ==
    {Return(None), Return(Some(1)), Raise("ScreenCaptureError"),
     Raise("RuntimeError")}

\* what get_pixel_color gives to its caller
PixelOutcomes ==
    {Return(Yellow), Raise("ScreenCaptureError"), Raise("RuntimeError")}

\* the handlers that catch a capture failure and nothing else
caught_capture_error_only(exc) == exc = "ScreenCaptureError"

\* except ScreenCaptureError ... except Exception: every exception of
\* the engine is caught
caught_in_iteration(exc) ==
    exc = "ScreenCaptureError" \/ exc \in {"RuntimeError", "TypeError"}

\* wave_content of an outcome of capture_and_recognize
wave_content(outcome) ==
    IF outcome.kind = "return"
    THEN IF outcome.value = None THEN "null" ELSE "number"
    ELSE IF outcome.exc = "ScreenCaptureError" THEN "capture failed"
         ELSE "OCR error"

\* color_info of an outcome of get_pixel_color
color_info(outcome) ==
    IF outcome.kind = "return" THEN "RGB"
    ELSE IF outcome.exc = "ScreenCaptureError" THEN "colour failed"
         ELSE "colour error"

\* a thread that was started and has not run yet
NewWorker == [pc |-> "while", text |-> None]

Worker(w) == wave_app.workers[w]

SetWorker(w, t) ==
    wave_app' = [wave_app EXCEPT !.workers[w] = t]

\* while self._recognizing
LoopWhile(w) ==
    /\ Worker(w).pc = "while"
    /\ IF wave_app.recognizing
       THEN SetWorker(w, [Worker(w) EXCEPT !.pc = "recognize"])
       ELSE SetWorker(w, [Worker(w) EXCEPT !.pc = "done"])

\* the first try statement: capture_and_recognize and its handlers
LoopRecognize(w) ==
    /\ Worker(w).pc = "recognize"
    /\ \E outcome \in EngineOutcomes :
           IF outcome.kind = "raise" /\ ~caught_in_iteration(outcome.exc)
           THEN SetWorker(w, [Worker(w) EXCEPT !.pc = "failed"])
           ELSE SetWorker(w, [Worker(w) EXCEPT !.pc = "pixel",
                                               !.text = Some(wave_content(outcome))])

\* the second try statement and root.after(0, _update_result_text, gui_text),
\* which fails when the window is destroyed
LoopPixel(w) ==
    /\ Worker(w).pc = "pixel"
    /\ \E outcome \in PixelOutcomes :
           IF \/ outcome.kind = "raise" /\ ~caught_in_iteration(outcome.exc)
              \/ wave_app.closed
           THEN SetWorker(w, [Worker(w) EXCEPT !.pc = "failed", !.text = None])
           ELSE wave_app' =
                    [wave_app EXCEPT
                       !.posted = Some(<<Worker(w).text[1], color_info(outcome)>>),
                       !.workers[w] = [pc |-> "sleep", text |-> None]]

\* for _ in range(10): if not self._recognizing: break; time.sleep(0.1)
\* the wait ends after ten polls of the flag, or at the first poll that
\* reads it cleared; the time it takes is not modelled
LoopSleep(w) ==
    /\ Worker(w).pc = "sleep"
    /\ SetWorker(w, [Worker(w) EXCEPT !.pc = "while"])

\* a step of the thread w
_recognize_loop(w) ==
    /\ w \in DOMAIN wave_app.workers
    /\ \/ LoopWhile(w)
       \/ LoopRecognize(w)
       \/ LoopPixel(w)
       \/ LoopSleep(w)
    /\ UNCHANGED <<op, args, ret, monitor, envVars>>
    /\ UNCHANGED <<exporters, input_controller, region_app, input_gui>>

\* the button or Ctrl+Q, on the main thread; valid says whether
\* _get_coords_from_entries gives coordinates
_on_recognize(valid) ==
    /\ ~wave_app.closed
    /\ IF ~wave_app.recognizing
       THEN IF ~valid THEN UNCHANGED wave_app
            ELSE /\ Len(wave_app.workers) < MaxWorkers
                 /\ wave_app' =
                        [wave_app EXCEPT
                           !.recognizing = TRUE,
                           !.coords = Some("coords"),
                           !.workers = Append(@, NewWorker),
                           !.thread = Some(Len(wave_app.workers) + 1)]
       ELSE wave_app' = [wave_app EXCEPT !.recognizing = FALSE]
    /\ UNCHANGED <<op, args, ret, monitor, envVars>>
    /\ UNCHANGED <<exporters, input_controller, region_app, input_gui>>

Call_on_recognize == \E valid \in BOOLEAN : _on_recognize(valid)

_on_close ==
    /\ ~wave_app.closed
    /\ wave_app' = [wave_app EXCEPT !.recognizing = FALSE, !.closed = TRUE]
    /\ UNCHANGED <<op, args, ret, monitor, envVars>>
    /\ UNCHANGED <<exporters, input_controller, region_app, input_gui>>

Step_recognize_loop == \E w \in 1..MaxWorkers : _recognize_loop(w)

InitWave ==
    /\ op = "none"
    /\ args = <<>>
    /\ ret = NotCalled
    /\ monitor = NoGrab
    /\ EnvIdle
    /\ AppIdle

NextWave ==
    \/ Call_on_recognize
    \/ _on_close
    \/ Step_recognize_loop

SpecWave == InitWave /\ [][NextWave]_vars

\* every thread that was started keeps running
SpecWaveFair ==
    SpecWave /\ \A w \in 1..MaxWorkers : WF_vars(_recognize_loop(w))

\* the threads that are inside _recognize_loop
LiveWorkers ==
    {w \in DOMAIN wave_app.workers : Worker(w).pc \notin {"done", "failed"}}

\* the thread w is at the position pc of _recognize_loop
WorkerAt(w, pc) == w \in DOMAIN wave_app.workers /\ Worker(w).pc = pc

\* C22: an exception of capture_and_recognize or get_pixel_color never ends
\* a worker (a worker fails only on posting to a destroyed window); an
\* iteration that began posts its text unless the window is closed; after
\* an iteration another one follows unless the flag is cleared; and a
\* worker leaves the loop only when it reads the flag cleared
C22_LoopSurvivesBadFrames ==
    /\ [](\A w \in DOMAIN wave_app.workers :
              Worker(w).pc = "failed" => wave_app.closed)
    /\ \A w \in 1..MaxWorkers :
           /\ WorkerAt(w, "recognize")
                ~> (WorkerAt(w, "sleep") \/ wave_app.closed)
           /\ WorkerAt(w, "sleep")
                ~> (WorkerAt(w, "recognize") \/ ~wave_app.recognizing)
    /\ [][\A w \in DOMAIN wave_app.workers :
              (Worker(w).pc # "done" /\ wave_app'.workers[w].pc = "done")
                  => ~wave_app.recognizing]_vars

\* a text was posted for a frame whose recognition failed, and its worker
\* is waiting for the next iteration
C22_Witness ==
    /\ wave_app.recognizing
    /\ wave_app.posted # None
    /\ wave_app.posted[1][1] = "OCR error"
    /\ wave_app.posted[1][2] = "colour failed"
    /\ \E w \in DOMAIN wave_app.workers : Worker(w).pc = "sleep"

\* C27: there is never more than one thread inside _recognize_loop
C27_AtMostOneWorker == Cardinality(LiveWorkers) <= 1

----------------------------------------------------------------------------
(* Two exporters on one save_dir.  save_region_color_mask takes no lock,
   so a call is three steps that other calls can interleave with: the
   captures, the mask and makedirs; the scan of the directory; the save.
   exporters holds one record per call: its position, its arguments, its
   mask, its outcome, and whether it began while another call was between
   its scan and its save. *)

NewExporter(a) ==
    [pc |-> "start", a |-> a, mask |-> None, ret |-> NotCalled,
     overlapped |-> FALSE]

\* region_img, target_color, mask_img, os.makedirs(save_dir, exist_ok=True)
ExportBegin(e) ==
    LET x == exporters[e]
        busy == \E o \in DOMAIN exporters : exporters[o].pc \in {"scan", "save"}
    IN  /\ x.pc = "start"
        /\ \E region \in capture_region(x.a[1], x.a[2], x.a[3], x.a[4]) :
             IF region.ret.kind = "raise"
             THEN /\ exporters' = [exporters EXCEPT ![e].pc = "done",
                                                    ![e].ret = region.ret,
                                                    ![e].overlapped = busy]
                  /\ UNCHANGED dirExists
             ELSE \E target \in get_pixel_color(x.a[5], x.a[6]) :
                    IF target.ret.kind = "raise"
                    THEN /\ exporters' = [exporters EXCEPT ![e].pc = "done",
                                                           ![e].ret = target.ret,
                                                           ![e].overlapped = busy]
                         /\ UNCHANGED dirExists
                    ELSE /\ exporters' =
                               [exporters EXCEPT
                                  ![e].pc = "scan",
                                  ![e].mask = Some(_build_color_mask_image(
                                                       region.ret.value,
                                                       target.ret.value)),
                                  ![e].overlapped = busy]
                         /\ dirExists' = TRUE
        /\ UNCHANGED files

\* if self._image_already_exists(mask_img, save_dir): return None
ExportScan(e) ==
    LET x == exporters[e]
    IN  /\ x.pc = "scan"
        /\ IF _image_already_exists(x.mask[1], files)
           THEN exporters' = [exporters EXCEPT ![e].pc = "done",
                                               ![e].ret = Return(None)]
           ELSE exporters' = [exporters EXCEPT ![e].pc = "save"]
        /\ UNCHANGED <<dirExists, files>>

\* timestamp = int(time.time()); mask_img.save(save_path); return save_path
ExportSave(e) ==
    LET x == exporters[e]
        save_path == filename(now)
    IN  /\ x.pc = "save"
        /\ files' = [n \in DOMAIN files \cup {save_path} |->
                        IF n = save_path THEN x.mask[1] ELSE files[n]]
        /\ exporters' = [exporters EXCEPT ![e].pc = "done",
                                          ![e].ret = Return(Some(save_path))]
        /\ UNCHANGED dirExists

\* a step of the call e
Step_save_region_color_mask ==
    /\ \E e \in DOMAIN exporters :
           \/ ExportBegin(e)
           \/ ExportScan(e)
           \/ ExportSave(e)
    /\ UNCHANGED <<op, args, ret, monitor, calls, screen, now, alpha_only>>
    /\ UNCHANGED <<wave_app, input_controller, region_app, input_gui>>

\* a second passes while the calls are under way
TickRace ==
    /\ now < MaxClock
    /\ now' = now + 1
    /\ UNCHANGED <<op, args, ret, monitor, calls, screen, dirExists, files,
                   alpha_only>>
    /\ UNCHANGED appVars

\* two calls on an empty save_dir
InitRace ==
    /\ op = "none"
    /\ args = <<>>
    /\ ret = NotCalled
    /\ monitor = NoGrab
    /\ calls = <<>>
    /\ screen \in Screens
    /\ now = 0
    /\ dirExists \in BOOLEAN
    /\ files = NoFiles
    /\ alpha_only \in BOOLEAN
    /\ wave_app = WaveNumberApp
    /\ input_controller = InputController
    /\ region_app = ScreenRegionMarkerApp
    /\ input_gui = AutoInputGUI
    /\ \E a \in SaveArgs, b \in SaveArgs :
           exporters = <<NewExporter(a), NewExporter(b)>>

NextRace ==
    \/ Step_save_region_color_mask
    \/ TickRace

SpecRace == InitRace /\ [][NextRace]_vars

\* both calls are over, returned, and had the same mask
BothExported ==
    /\ \A e \in DOMAIN exporters :
           exporters[e].pc = "done" /\ exporters[e].ret.kind = "return"
    /\ exporters[1].mask = exporters[2].mask

\* the calls that returned a path
Paths == {e \in DOMAIN exporters : exporters[e].ret.value # None}

\* C23: when the two calls with one mask content run one after the other,
\* one returns a path and the other the duplicate sentinel None; only
\* calls that overlap can both return a path
C23_SerializedYieldsOneDuplicate ==
    BothExported =>
        /\ Cardinality(Paths) >= 1
        /\ (\A e \in DOMAIN exporters : ~exporters[e].overlapped)
               => Cardinality(Paths) = 1

\* both calls passed the duplicate check before either wrote, and both
\* returned a path
C23_Witness ==
    /\ BothExported
    /\ Cardinality(Paths) = 2
    /\ \E e \in DOMAIN exporters : exporters[e].overlapped

----------------------------------------------------------------------------
(* InputController: start, stop, pause, resume and the thread _input_loop.
   input_controller.threads holds one record for every thread that was
   started: its position in _input_loop, the list it iterates over and
   its indices into it.  joining says that the caller of stop is inside
   thread.join(timeout=1.0).  A string item is a record of its text (a
   sequence of characters) and its interval_ms.  The keys that are sent
   are not kept. *)

\* the threads that are started at most
MaxInputThreads == 2

\* self.thread.join(timeout=1.0), in milliseconds
JoinTimeoutMs == 1000

\* the lists handed to start
InputStrings ==
    {<<[text |-> <<"a", "b">>, interval_ms |-> 100]>>,
     <<[text |-> <<"a">>, interval_ms |-> 5000],
       [text |-> <<"b">>, interval_ms |-> 100]>>}

\* the character intervals handed to start
CharIntervals == {1, 2000}

is_running == input_controller.running

is_paused == input_controller.paused /\ input_controller.running

NewInputThread == [pc |-> "while", items |-> <<>>, i |-> 0, j |-> 0]

InputThread(t) == input_controller.threads[t]

SetInputThread(t, x) ==
    input_controller' = [input_controller EXCEPT !.threads[t] = x]

\* the thread goes on with the string after items[i], or leaves the for loop
NextString(x) ==
    IF x.i < Len(x.items)
    THEN [x EXCEPT !.pc = "string", !.i = @ + 1, !.j = 0]
    ELSE [x EXCEPT !.pc = "end", !.i = 0, !.j = 0]

\* while self.running.is_set(): for string_item in self.strings
InputWhile(t) ==
    /\ InputThread(t).pc = "while"
    /\ IF ~input_controller.running
       THEN SetInputThread(t, [InputThread(t) EXCEPT !.pc = "done"])
       ELSE SetInputThread(t, NextString([InputThread(t) EXCEPT
                                             !.items = input_controller.strings,
                                             !.i = 0]))

\* the wait while paused, the check of running and the test of the text
InputString(t) ==
    LET x == InputThread(t)
    IN  /\ x.pc = "string"
        /\ ~(input_controller.paused /\ input_controller.running)
        /\ IF ~input_controller.running
           THEN SetInputThread(t, [x EXCEPT !.pc = "end", !.i = 0])
           ELSE IF x.items[x.i].text # <<>>
                THEN SetInputThread(t, [x EXCEPT !.pc = "char", !.j = 1])
                ELSE SetInputThread(t, [x EXCEPT !.pc = "gap"])

\* one round of for char in text: the checks, the wait while paused,
\* _press_key, and the test for the character interval
InputChar(t) ==
    LET x == InputThread(t)
        text == x.items[x.i].text
    IN  /\ x.pc = "char"
        /\ ~(input_controller.paused /\ input_controller.running)
        /\ IF ~input_controller.running
           THEN SetInputThread(t, [x EXCEPT !.pc = "gap", !.j = 0])
           ELSE IF text[x.j] # text[Len(text)]
                THEN SetInputThread(t, [x EXCEPT !.pc = "char_sleep"])
                ELSE IF x.j < Len(text)
                     THEN SetInputThread(t, [x EXCEPT !.j = @ + 1])
                     ELSE SetInputThread(t, [x EXCEPT !.pc = "gap", !.j = 0])

\* time.sleep(self.char_interval_ms / 1000.0) is over
InputCharSleep(t) ==
    LET x == InputThread(t)
    IN  /\ x.pc = "char_sleep"
        /\ SetInputThread(t, [x EXCEPT !.pc = "char", !.j = @ + 1])

\* if self.running.is_set() and string_item != self.strings[-1]
InputGap(t) ==
    LET x == InputThread(t)
        strings == input_controller.strings
    IN  /\ x.pc = "gap"
        /\ IF input_controller.running /\ x.items[x.i] # strings[Len(strings)]
           THEN SetInputThread(t, [x EXCEPT !.pc = "string_sleep"])
           ELSE SetInputThread(t, NextString(x))

\* time.sleep(interval_ms / 1000.0) is over
InputStringSleep(t) ==
    LET x == InputThread(t)
    IN  /\ x.pc = "string_sleep"
        /\ SetInputThread(t, NextString(x))

\* if not self.running.is_set(): break
InputEnd(t) ==
    LET x == InputThread(t)
    IN  /\ x.pc = "end"
        /\ IF ~input_controller.running
           THEN SetInputThread(t, [x EXCEPT !.pc = "done", !.items = <<>>])
           ELSE SetInputThread(t, [x EXCEPT !.pc = "while", !.items = <<>>])

AppsButInput == <<wave_app, exporters, region_app, input_gui>>

\* a step of the thread t
_input_loop(t) ==
    /\ t \in DOMAIN input_controller.threads
    /\ \/ InputWhile(t)
       \/ InputString(t)
       \/ InputChar(t)
       \/ InputCharSleep(t)
       \/ InputGap(t)
       \/ InputStringSleep(t)
       \/ InputEnd(t)
    /\ UNCHANGED <<op, args, ret, monitor, envVars, AppsButInput>>

Step_input_loop == \E t \in 1..MaxInputThreads : _input_loop(t)

\* thread.is_alive()
is_alive(t) == InputThread(t).pc # "done"

\* the thread sleeps for longer than the timeout of join
SleepsLong(t) ==
    LET x == InputThread(t)
    IN  \/ x.pc = "string_sleep" /\ x.items[x.i].interval_ms > JoinTimeoutMs
        \/ x.pc = "char_sleep" /\ input_controller.char_interval_ms > JoinTimeoutMs

start(strings, char_interval_ms) ==
    /\ ~input_controller.joining
    /\ IF input_controller.running
       THEN UNCHANGED input_controller
       ELSE /\ Len(input_controller.threads) < MaxInputThreads
            /\ input_controller' =
                   [input_controller EXCEPT
                      !.strings = strings,
                      !.char_interval_ms = char_interval_ms,
                      !.running = TRUE,
                      !.paused = FALSE,
                      !.threads = Append(@, NewInputThread),
                      !.thread = Some(Len(input_controller.threads) + 1)]
    /\ UNCHANGED <<op, args, ret, monitor, envVars, AppsButInput>>

Call_start ==
    \E strings \in InputStrings, char_interval_ms \in CharIntervals :
        start(strings, char_interval_ms)

\* stop up to the call of join
stop ==
    /\ ~input_controller.joining
    /\ input_controller' =
           [input_controller EXCEPT
              !.running = FALSE,
              !.paused = FALSE,
              !.joining = /\ input_controller.thread # None
                          /\ is_alive(input_controller.thread[1])]
    /\ UNCHANGED <<op, args, ret, monitor, envVars, AppsButInput>>

\* join returns: the thread is over, or a second went by while it slept
JoinReturns ==
    /\ input_controller.joining
    /\ \/ ~is_alive(input_controller.thread[1])
       \/ SleepsLong(input_controller.thread[1])
    /\ input_controller' = [input_controller EXCEPT !.joining = FALSE]
    /\ UNCHANGED <<op, args, ret, monitor, envVars, AppsButInput>>

pause ==
    /\ ~input_controller.joining
    /\ input_controller' = [input_controller EXCEPT !.paused = TRUE]
    /\ UNCHANGED <<op, args, ret, monitor, envVars, AppsButInput>>

resume ==
    /\ ~input_controller.joining
    /\ input_controller' = [input_controller EXCEPT !.paused = FALSE]
    /\ UNCHANGED <<op, args, ret, monitor, envVars, AppsButInput>>

InitInput ==
    /\ op = "none"
    /\ args = <<>>
    /\ ret = NotCalled
    /\ monitor = NoGrab
    /\ EnvIdle
    /\ AppIdle

NextInput ==
    \/ Call_start
    \/ stop
    \/ JoinReturns
    \/ pause
    \/ resume
    \/ Step_input_loop

SpecInput == InitInput /\ [][NextInput]_vars

\* the threads that are inside _input_loop
LiveInputThreads ==
    {t \in DOMAIN input_controller.threads : is_alive(t)}

\* C28: there are never two live _input_loop threads, and is_paused() is
\* true only while is_running() is true
C28_AtMostOneInputLoop ==
    /\ Cardinality(LiveInputThreads) <= 1
    /\ is_paused => is_running

----------------------------------------------------------------------------
(* ScreenRegionMarkerApp: the region store self.regions, regions.json, the
   selector (a read-only combobox: its values and its selection) and
   current_region.  A region is a record of its box and its deleted flag;
   a name is a sequence of characters, "sp" being a space.  ever_saved
   keeps the names that save_current_region saved with success. *)

\* the boxes that are captured
Boxes == {1, 2}

\* the texts of the name field
TypedNames == {<<>>, <<"sp">>, <<"a">>, <<"a", "sp">>, <<"b">>}

\* open(path, "w") and json.dump: the file is written, or open fails and
\* the file stays, or the write fails after open has truncated the file
WriteOutcomes == {"written", "refused", "truncated"}

RECURSIVE lstrip(_)
lstrip(text) ==
    IF text # <<>> /\ Head(text) = "sp" THEN lstrip(Tail(text)) ELSE text

RECURSIVE rstrip(_)
rstrip(text) ==
    IF text # <<>> /\ text[Len(text)] = "sp"
    THEN rstrip(SubSeq(text, 1, Len(text) - 1))
    ELSE text

\* str.strip()
strip(text) == rstrip(lstrip(text))

\* the item that save_regions writes for a region
to_item(region) ==
    [box |-> region.box,
     deleted |-> IF region.deleted THEN Some(TRUE) ELSE None]

\* the Region that load_regions makes of an item
from_item(info) ==
    [box |-> info.box,
     deleted |-> IF info.deleted = None THEN FALSE ELSE info.deleted[1]]

\* the file after save_regions(regions, path) with the outcome write
save_regions(regions, file, write) ==
    CASE write = "written" ->
             [exists |-> TRUE, intact |-> TRUE,
              data |-> [n \in DOMAIN regions |-> to_item(regions[n])]]
      [] write = "refused" -> file
      [] write = "truncated" ->
             [exists |-> TRUE, intact |-> FALSE, data |-> NoEntries]

load_regions(file) ==
    IF ~file.exists \/ ~file.intact THEN NoEntries
    ELSE [n \in DOMAIN file.data |-> from_item(file.data[n])]

\* ord(ch) of the characters of the model
ord(ch) == CASE ch = "sp" -> 32 [] ch = "a" -> 97 [] ch = "b" -> 98

\* n < m for two str of Python
RECURSIVE str_less(_, _)
str_less(n, m) ==
    IF m = <<>> THEN FALSE
    ELSE IF n = <<>> THEN TRUE
    ELSE IF ord(Head(n)) # ord(Head(m)) THEN ord(Head(n)) < ord(Head(m))
    ELSE str_less(Tail(n), Tail(m))

\* names.sort(); names[0]
FirstName(names) ==
    CHOOSE n \in names : \A m \in names : n = m \/ str_less(n, m)

\* names = [name for name, region in self.regions.items() if not deleted]
visible_names(regions) == {n \in DOMAIN regions : ~regions[n].deleted}

\* refresh_region_list(select_name) on the store regions
refresh_region_list(app, regions, select_name) ==
    LET names == visible_names(regions)
    IN  [app EXCEPT
           !.regions = regions,
           !.values = names,
           !.selected = IF select_name # <<>> /\ select_name \in names
                        THEN select_name
                        ELSE IF names # {} THEN FirstName(names) ELSE <<>>]

AppsButRegion == <<wave_app, exporters, input_controller, input_gui>>

\* the range capture ends with a box
capture_range(box) ==
    /\ op' = "capture_range"
    /\ args' = <<box>>
    /\ ret' = NotCalled
    /\ region_app' = [region_app EXCEPT !.current_region = Some(box)]
    /\ UNCHANGED <<monitor, envVars, AppsButRegion>>

\* the user picks a name of the selector
select_region(name) ==
    /\ name \in region_app.values
    /\ name # region_app.selected
    /\ op' = "select_region"
    /\ args' = <<name>>
    /\ ret' = NotCalled
    /\ region_app' = [region_app EXCEPT !.selected = name]
    /\ UNCHANGED <<monitor, envVars, AppsButRegion>>

\* save_current_region with the text typed of the name field; ret is
\* "saved", "failed" or None (nothing to save)
save_current_region(typed, write) ==
    LET name == strip(typed)
        region == [box |-> region_app.current_region[1], deleted |-> FALSE]
        regions == [n \in DOMAIN region_app.regions \cup {name} |->
                       IF n = name THEN region ELSE region_app.regions[n]]
        file == save_regions(regions, region_app.file, write)
    IN  /\ op' = "save_current_region"
        /\ args' = <<name, write>>
        /\ IF region_app.current_region = None \/ name = <<>>
           THEN /\ ret' = Return(None)
                /\ UNCHANGED region_app
           ELSE IF write # "written"
                THEN /\ ret' = Return(Some("failed"))
                     /\ region_app' = [region_app EXCEPT !.regions = regions,
                                                         !.file = file]
                ELSE /\ ret' = Return(Some("saved"))
                     /\ region_app' =
                            [refresh_region_list(region_app, regions, name)
                               EXCEPT !.file = file,
                                      !.ever_saved = @ \cup {name}]
        /\ UNCHANGED <<monitor, envVars, AppsButRegion>>

\* delete_selected_region; confirm is the answer to askyesno; ret is
\* "deleted", "failed" or None (nothing was deleted)
delete_selected_region(confirm, write) ==
    LET name == strip(region_app.selected)
        regions == [region_app.regions EXCEPT ![name].deleted = TRUE]
        file == save_regions(regions, region_app.file, write)
    IN  /\ op' = "delete_selected_region"
        /\ args' = <<name, write>>
        /\ IF name = <<>>
           THEN /\ ret' = Return(None)
                /\ UNCHANGED region_app
           ELSE IF name \notin DOMAIN region_app.regions
                THEN /\ ret' = Return(None)
                     /\ region_app' = refresh_region_list(region_app,
                                                          region_app.regions, <<>>)
                ELSE IF region_app.regions[name].deleted \/ ~confirm
                     THEN /\ ret' = Return(None)
                          /\ UNCHANGED region_app
                     ELSE IF write # "written"
                          THEN /\ ret' = Return(Some("failed"))
                               /\ region_app' = [region_app EXCEPT !.file = file]
                          ELSE /\ ret' = Return(Some("deleted"))
                               /\ region_app' =
                                      [refresh_region_list(region_app, regions, <<>>)
                                         EXCEPT !.file = file]
        /\ UNCHANGED <<monitor, envVars, AppsButRegion>>

\* the application is closed and started again: __init__ loads the file
restart_region_app ==
    /\ op' = "restart"
    /\ args' = <<>>
    /\ ret' = NotCalled
    /\ region_app' =
           [refresh_region_list(region_app, load_regions(region_app.file), <<>>)
              EXCEPT !.current_region = None]
    /\ UNCHANGED <<monitor, envVars, AppsButRegion>>

Call_capture_range == \E box \in Boxes : capture_range(box)

Call_select_region == \E name \in region_app.values : select_region(name)

Call_save_current_region ==
    \E typed \in TypedNames, write \in WriteOutcomes :
        save_current_region(typed, write)

Call_delete_selected_region ==
    \E confirm \in BOOLEAN, write \in WriteOutcomes :
        delete_selected_region(confirm, write)

InitRegions ==
    /\ op = "none"
    /\ args = <<>>
    /\ ret = NotCalled
    /\ monitor = NoGrab
    /\ EnvIdle
    /\ AppIdle

NextRegions ==
    \/ Call_capture_range
    \/ Call_select_region
    \/ Call_save_current_region
    \/ Call_delete_selected_region
    \/ restart_region_app

SpecRegions == InitRegions /\ [][NextRegions]_vars

\* C29: every name ever saved is in the store and in the file; a region
\* is hidden from the selector iff its deleted flag is set; a save clears
\* the flag of its name; a delete whose write fails leaves the flag unset
C29_SoftDeleteKeepsData ==
    /\ \A n \in region_app.ever_saved :
           /\ n \in DOMAIN region_app.regions
           /\ region_app.file.intact
           /\ n \in DOMAIN region_app.file.data
    /\ \A n \in DOMAIN region_app.regions :
           n \notin region_app.values <=> region_app.regions[n].deleted
    /\ (op = "save_current_region" /\ ret # Return(None))
           => ~region_app.regions[args[1]].deleted
    /\ (op = "delete_selected_region" /\ ret = Return(Some("failed")))
           => ~region_app.regions[args[1]].deleted

----------------------------------------------------------------------------
(* AutoInputGUI and ConfigManager: current_hotkey, the string cards, the
   character interval entry, config.json and whether the hotkey listener
   runs.  A config is a record of strings, char_interval_ms and an
   optional hotkey; the file is None when it does not exist.  An entry
   that does not hold a non-negative integer is None.  The outcome of a
   handler is kept in ret: an exception that leaves the handler is
   reported by Tk and the application goes on. *)

Hotkeys == {"f1", "f2", "ctrl+q"}

\* the string items of the cards
CardLists == {<<>>, <<[text |-> <<"a">>, interval_ms |-> 100]>>}

\* the character interval entry: integers, or a text that is not one
IntervalEntries == {Some(1), Some(100), None}

\* config.json as AutoInputGUI finds it at its first start: absent, or
\* written with a hotkey by hand
FirstConfigs ==
    {None,
     Some([strings |-> <<>>, char_interval_ms |-> 1, hotkey |-> Some("f2")])}

default_config == [strings |-> <<>>, char_interval_ms |-> 100, hotkey |-> None]

\* the number of parameters of ConfigManager.save_config after self
SaveConfigArity == 2

\* ConfigManager.load_config
load_config(file) == IF file = None THEN default_config ELSE file[1]

\* ConfigManager.save_config called with the positional arguments argv:
\* the outcome of the call and the file after it
save_config(argv, file) ==
    IF Len(argv) # SaveConfigArity
    THEN [ret |-> Raise("TypeError"), file |-> file]
    ELSE [ret |-> Return(None),
          file |-> Some([strings |-> argv[1], char_interval_ms |-> argv[2],
                         hotkey |-> None])]

\* AutoInputGUI._get_all_strings
_get_all_strings ==
    IF input_gui.char_interval_entry = None THEN Raise("ValueError")
    ELSE Return(<<input_gui.cards, input_gui.char_interval_entry[1]>>)

AppsButGui == <<wave_app, exporters, input_controller, region_app>>

\* the user edits the cards and the interval entry
edit_cards(cards, entry) ==
    /\ <<cards, entry>> # <<input_gui.cards, input_gui.char_interval_entry>>
    /\ op' = "edit"
    /\ args' = <<>>
    /\ ret' = NotCalled
    /\ input_gui' = [input_gui EXCEPT !.cards = cards,
                                      !.char_interval_entry = entry]
    /\ UNCHANGED <<monitor, envVars, AppsButGui>>

\* AutoInputGUI._load_config at the start of the application, followed by
\* the start of the hotkey listener
_load_config ==
    LET config == load_config(input_gui.file)
    IN  /\ op' = "_load_config"
        /\ args' = <<>>
        /\ ret' = Return(None)
        /\ input_gui' =
               [input_gui EXCEPT
                  !.current_hotkey = IF config.hotkey = None THEN "f1"
                                     ELSE config.hotkey[1],
                  !.char_interval_entry = Some(config.char_interval_ms),
                  !.cards = config.strings,
                  !.listening = TRUE]
        /\ UNCHANGED <<monitor, envVars, AppsButGui>>

\* AutoInputGUI._save_config
_save_config ==
    LET got == _get_all_strings
        saved == save_config(<<got.value[1], got.value[2],
                               input_gui.current_hotkey>>, input_gui.file)
    IN  /\ op' = "_save_config"
        /\ args' = <<>>
        /\ IF got.kind = "raise" \/ got.value[1] = <<>>
           THEN /\ ret' = Return(None)
                /\ UNCHANGED input_gui
           ELSE /\ ret' = IF saved.ret.kind = "raise" THEN saved.ret
                          ELSE Return(Some("saved"))
                /\ input_gui' = [input_gui EXCEPT !.file = saved.file]
        /\ UNCHANGED <<monitor, envVars, AppsButGui>>

\* AutoInputGUI._change_hotkey; result is dialog.result
_change_hotkey(result) ==
    LET got == _get_all_strings
        config == load_config(input_gui.file)
        saved == IF got.kind = "return"
                 THEN save_config(<<got.value[1], got.value[2], result[1]>>,
                                  input_gui.file)
                 ELSE save_config(<<config.strings, config.char_interval_ms,
                                    result[1]>>, input_gui.file)
    IN  /\ op' = "_change_hotkey"
        /\ args' = <<result>>
        /\ IF result = None
           THEN /\ ret' = Return(None)
                /\ input_gui' = [input_gui EXCEPT !.listening = TRUE]
           ELSE /\ ret' = IF saved.ret.kind = "raise" THEN saved.ret
                          ELSE Return(Some("changed"))
                /\ input_gui' = [input_gui EXCEPT
                                   !.current_hotkey = result[1],
                                   !.file = saved.file,
                                   !.listening = saved.ret.kind = "return"]
        /\ UNCHANGED <<monitor, envVars, AppsButGui>>

Call_edit_cards ==
    \E cards \in CardLists, entry \in IntervalEntries : edit_cards(cards, entry)

Call_change_hotkey ==
    \E result \in {None} \cup {Some(k) : k \in Hotkeys} : _change_hotkey(result)

InitGui ==
    /\ op = "none"
    /\ args = <<>>
    /\ ret = NotCalled
    /\ monitor = NoGrab
    /\ EnvIdle
    /\ wave_app = WaveNumberApp
    /\ exporters = <<>>
    /\ input_controller = InputController
    /\ region_app = ScreenRegionMarkerApp
    /\ \E file \in FirstConfigs :
           LET config == load_config(file)
           IN  input_gui =
                   [current_hotkey |-> IF config.hotkey = None THEN "f1"
                                       ELSE config.hotkey[1],
                    cards |-> config.strings,
                    char_interval_entry |-> Some(config.char_interval_ms),
                    file |-> file,
                    listening |-> TRUE]

NextGui ==
    \/ Call_edit_cards
    \/ _load_config
    \/ _save_config
    \/ Call_change_hotkey

SpecGui == InitGui /\ [][NextGui]_vars

\* C30: after _change_hotkey recorded a new key, and after _save_config
\* went through, config.json holds current_hotkey, so that _load_config
\* restores it
C30_HotkeyPersisted ==
    (\/ op = "_change_hotkey" /\ args[1] # None
     \/ op = "_save_config" /\ ret # Return(None))
        => /\ input_gui.file # None
           /\ input_gui.file[1].hotkey = Some(input_gui.current_hotkey)

====
